---- MODULE Spec2Model ----
(***************************************************************************)
(* A model of temporal-xray's history summarizer and execution differ:    *)
(* the payload decoder, the event classifier, the activity grouper, the   *)
(* history summarizer and the diff engine.                                 *)
(*                                                                         *)
(* JavaScript values are tagged records, so that values of different      *)
(* JavaScript types can be compared: [t |-> "undefined"], [t |-> "null"], *)
(* strings, numbers, booleans, arrays (e: the elements) and plain objects *)
(* (e: the entries, in insertion order).  A function that can throw       *)
(* returns the value Raise where the exception would leave it.            *)
(***************************************************************************)
EXTENDS Integers, Sequences, FiniteSets, TLC

VARIABLES
    mode,        \* which component this behaviour exercises
    pc,          \* the caller's position
    historyA,    \* diffExecutions: first argument
    historyB,    \* diffExecutions: second argument
    report,      \* diffExecutions: the value returned
    payload,     \* decodePayload: first argument
    truncateAt,  \* decodePayload: second argument
    decoded,     \* decodePayload: the value returned, or Raise
    events,      \* the raw history events, in the order received
    groups,      \* groupActivityEvents: the Map of groups built so far
    options,     \* summarizeHistory: detailLevel and eventTypes
    history,     \* summarizeHistory: the value returned by the first call
    history2,    \* summarizeHistory: the value returned by the second call
    activeConfig,        \* temporal-client: the configuration in force
    clientCache,         \* temporal-client: the Client cached for each namespace
    connectionInstance,  \* temporal-client: the shared Connection, or Null
    connections,         \* every Connection opened so far, and whether it is open
    toolCall,    \* the tool call being served: its name and input
    tasks,       \* the getTemporalClient / getWorkflowHistory calls in flight
    requests,    \* the requests made to the Temporal server, in order
    outcome,     \* what the tool call returned or threw
    served       \* the number of tool calls started

vars == <<mode, pc, historyA, historyB, report, payload, truncateAt, decoded,
          events, groups, options, history, history2,
          activeConfig, clientCache, connectionInstance, connections,
          toolCall, tasks, requests, outcome, served>>

diffVars == <<historyA, historyB, report>>
decodeVars == <<payload, truncateAt, decoded>>
eventVars == <<events, groups, options, history, history2>>
clientVars == <<activeConfig, clientCache, connectionInstance, connections>>
toolVars == <<clientVars, toolCall, tasks, requests, outcome, served>>


(***************************************************************************)
(* JavaScript values                                                       *)
(***************************************************************************)
Undefined == [t |-> "undefined"]
Null == [t |-> "null"]
Str(s) == [t |-> "string", v |-> s]
Num(n) == [t |-> "number", n |-> n]
Bool(b) == [t |-> "boolean", b |-> b]
Arr(xs) == [t |-> "array", e |-> xs]
Obj(entries) == [t |-> "object", e |-> entries]
Entry(k, v) == [k |-> k, v |-> v]

\* The value an exception leaves in place of a result.
Raise == [t |-> "raise"]
\* A caller's variable before the call has returned.
Idle == [t |-> "idle"]

\* The variables of the components a behaviour does not exercise.
DiffUnused == historyA = Idle /\ historyB = Idle /\ report = Idle
DecodeUnused == payload = Idle /\ truncateAt = Idle /\ decoded = Idle
SummaryUnused == options = Idle /\ history = Idle /\ history2 = Idle
EventsUnused == events = Idle /\ groups = Idle /\ SummaryUnused
ToolsUnused ==
    /\ activeConfig = Idle /\ clientCache = Idle /\ connectionInstance = Idle
    /\ connections = Idle /\ toolCall = Idle /\ tasks = Idle /\ requests = Idle
    /\ outcome = Idle /\ served = Idle

IsString(x) == x.t = "string"
IsArray(x) == x.t = "array"
IsPlainObject(x) == x.t = "object"
IsPrimitive(x) == x.t \in {"undefined", "null", "string", "number", "boolean"}

\* typeof x === "object"
TypeofObject(x) == x.t \in {"null", "array", "object"}

\* a === b.  Primitives compare by value.  Two objects are === only when they
\* are one object; the comparator below then goes on to compare them member
\* by member, which is the longer of the two ways the code can take.
StrictEq(a, b) == IsPrimitive(a) /\ IsPrimitive(b) /\ a = b

\* Object.keys(o), in insertion order.
Keys(o) == [i \in 1..Len(o.e) |-> o.e[i].k]

\* o[key]: undefined when o has no such key.
GetKey(o, key) ==
    IF \E i \in 1..Len(o.e) : o.e[i].k = key
    THEN o.e[CHOOSE i \in 1..Len(o.e) : o.e[i].k = key].v
    ELSE Undefined

\* xs[i] for a 0-based index i: undefined past the end.
GetIndex(xs, i) == IF i + 1 <= Len(xs.e) THEN xs.e[i + 1] ELSE Undefined

\* x ?? y
Coalesce(x, y) == IF x \in {Null, Undefined} THEN y ELSE x

Max(a, b) == IF a >= b THEN a ELSE b
Range(s) == {s[i] : i \in 1..Len(s)}

\* [...new Set(s)]: the first occurrence of each element, in order.
Dedup(s) ==
    LET first(i) == \A j \in 1..(i - 1) : s[j] # s[i]
        RECURSIVE from(_)
        from(i) == IF i > Len(s) THEN <<>>
                   ELSE (IF first(i) THEN <<s[i]>> ELSE <<>>) \o from(i + 1)
    IN from(1)

\* The concatenation of the strings parts[lo..hi], halving the range.
RECURSIVE ConcatRange(_, _, _)
ConcatRange(parts, lo, hi) ==
    IF lo > hi THEN ""
    ELSE IF lo = hi THEN parts[lo]
    ELSE LET mid == (lo + hi) \div 2
         IN ConcatRange(parts, lo, mid) \o ConcatRange(parts, mid + 1, hi)

ConcatAll(parts) == ConcatRange(parts, 1, Len(parts))

\* parts.join(sep)
Join(parts, sep) ==
    ConcatAll([i \in 1..Len(parts) |-> IF i = 1 THEN parts[i] ELSE sep \o parts[i]])

CharAt(s, i) == SubSeq(s, i, i)

\* JSON.stringify's escaping of a string's characters.
EscapeChar(c) == IF c = "\"" THEN "\\\"" ELSE IF c = "\\" THEN "\\\\" ELSE c

Quote(s) == "\"" \o ConcatAll([i \in 1..Len(s) |-> EscapeChar(CharAt(s, i))]) \o "\""

\* JSON.stringify(v) for a value other than undefined.  An undefined array
\* element is written null; an undefined member of an object is left out.
RECURSIVE JSONStringify(_)
JSONStringify(v) ==
    CASE v.t = "null" -> "null"
      [] v.t = "undefined" -> "null"
      [] v.t = "string" -> Quote(v.v)
      [] v.t = "number" -> ToString(v.n)
      [] v.t = "boolean" -> IF v.b THEN "true" ELSE "false"
      [] v.t = "array" ->
            "[" \o Join([i \in 1..Len(v.e) |-> JSONStringify(v.e[i])], ",") \o "]"
      [] v.t = "object" ->
            LET kept == SelectSeq(v.e, LAMBDA en : en.v # Undefined)
            IN "{" \o Join([i \in 1..Len(kept) |->
                              Quote(kept[i].k) \o ":" \o JSONStringify(kept[i].v)], ",")
                   \o "}"

(***************************************************************************)
(* Payload decoder                                                         *)
(*                                                                         *)
(* A payload is null or a record with an optional data (a sequence of     *)
(* bytes) and an optional metadata (a record of byte sequences).          *)
(***************************************************************************)

\* The printable ASCII characters, from code 32 to code 126; a space stands
\* where the grave accent (code 96) is, which a string of this language cannot
\* hold and no sample uses.
Ascii ==
    " !\"#$%&'()*+,-./0123456789:;<=>?@ABCDEFGHIJKLMNOPQRSTUVWXYZ[\\]^_ abcdefghijklmnopqrstuvwxyz{|}~"

\* The characters this model writes for U+FFFD, the replacement character, and
\* for a code point of two bytes.  The sample texts use neither as themselves.
ReplacementChar == "^"
TwoByteChar == "~"

IsLead2(b) == b \in 194..223
IsContinuation(b) == b \in 128..191

\* The UTF-8 bytes of an ASCII text.
Utf8(text) ==
    [i \in 1..Len(text) |->
        31 + (CHOOSE c \in 1..Len(Ascii) : CharAt(Ascii, c) = CharAt(text, i))]

SUMMARY_TRUNCATE_BYTES == 10240

\* A string whose JSON text is n bytes long.
StringOfBytes(n) == ConcatAll([i \in 1..(n - 2) |-> "a"])

\* The bytes of the largest sample payload: the JSON text of a string, one
\* byte over the summary threshold.
LargeJsonBytes == Utf8(Quote(StringOfBytes(SUMMARY_TRUNCATE_BYTES + 1)))

\* textDecoder.decode(bytes): UTF-8, a malformed byte becoming U+FFFD.  Bytes
\* are printable ASCII, two-byte sequences or malformed; the samples hold no
\* control characters and no longer sequences.
DecodeBytes(bytes) ==
    LET unit(i) ==
            IF bytes[i] \in 32..126 THEN CharAt(Ascii, bytes[i] - 31)
            ELSE IF IsLead2(bytes[i]) /\ i < Len(bytes) /\ IsContinuation(bytes[i + 1])
            THEN TwoByteChar
            ELSE IF IsContinuation(bytes[i]) /\ i > 1 /\ IsLead2(bytes[i - 1])
            THEN ""
            ELSE ReplacementChar
    IN ConcatAll([i \in 1..Len(bytes) |-> unit(i)])

\* The decoding of the largest sample payload, computed once.
LargeJsonDecoded == DecodeBytes(LargeJsonBytes)

TextDecode(bytes) ==
    IF bytes = LargeJsonBytes THEN LargeJsonDecoded ELSE DecodeBytes(bytes)

\* s.startsWith(prefix)
StartsWith(s, prefix) == Len(s) >= Len(prefix) /\ SubSeq(s, 1, Len(prefix)) = prefix

\* s.slice(0, n)
SliceTo(s, n) == IF Len(s) <= n THEN s ELSE SubSeq(s, 1, n)

PreviewChars == 500
LongPayloadBytes == 600    \* the size of the largest sample payload

LongString == ConcatAll([i \in 1..(LongPayloadBytes - 2) |-> "a"])

\* The values whose JSON texts the sample payloads spell.
JsonUniverse ==
    {Null, Num(1), Str("ok"), Str(TwoByteChar), Str(LongString),
     Str(StringOfBytes(SUMMARY_TRUNCATE_BYTES + 1)),
     Bool(TRUE), Arr(<<Num(1)>>),
     Obj(<<Entry("status", Str("ok"))>>), Obj(<<Entry("status", Str("fail"))>>),
     Obj(<<Entry("orderId", Num(1))>>)}

\* JSON.parse(raw): the value raw is the JSON text of, a SyntaxError when it is
\* the text of none.
JsonTexts == [v \in JsonUniverse |-> JSONStringify(v)]

ParseJSON(raw) ==
    IF \E v \in JsonUniverse : JsonTexts[v] = raw
    THEN CHOOSE v \in JsonUniverse : JsonTexts[v] = raw
    ELSE Raise

\* A slip: no catch, so what the body throws leaves the function.
TryCatch_NoCatch(body, handler) == body

\* try { body } catch { handler }
TryCatch(body, handler) == IF body = Raise THEN handler ELSE body

EncryptedMarker ==
    Obj(<<Entry("_type", Str("encrypted")),
          Entry("note", Str("Payloads are encrypted. Configure a codec server endpoint for decryption."))>>)

ProtobufMarker(messageType) ==
    Obj(<<Entry("_type", Str("protobuf")),
          Entry("messageType", Str(messageType)),
          Entry("note", Str("Install the project's protobuf definitions for full deserialization"))>>)

TruncatedMarker(raw, byteLength) ==
    Obj(<<Entry("_truncated", Bool(TRUE)),
          Entry("preview", Str(SliceTo(raw, PreviewChars))),
          Entry("fullSizeBytes", Num(byteLength))>>)

\* payload.metadata?.[key] ? textDecoder.decode(payload.metadata[key]) : dflt
MetadataText(p, key, dflt) ==
    IF "metadata" \in DOMAIN p /\ key \in DOMAIN p.metadata
    THEN TextDecode(p.metadata[key])
    ELSE dflt

\* truncateAt && byteLength > truncateAt
ExceedsThreshold(byteLength, threshold) ==
    threshold # Undefined /\ threshold.n # 0 /\ byteLength > threshold.n

\* A slip: the decoded text's length compared, not the byte length.
JsonBranch_CharLength(p, threshold) ==
    LET raw == TextDecode(p.data)
    IN IF ExceedsThreshold(Len(raw), threshold)
       THEN TruncatedMarker(raw, Len(p.data))
       ELSE ParseJSON(raw)

\* The body of the try block.
JsonBranch(p, threshold) ==
    LET raw == TextDecode(p.data)
    IN IF ExceedsThreshold(Len(p.data), threshold)
       THEN TruncatedMarker(raw, Len(p.data))
       ELSE ParseJSON(raw)

IsEncryptedTag(encoding) == encoding \in {"binary/encrypted", "encoding/encrypted"}
IsProtobufTag(encoding) == encoding = "binary/protobuf" \/ StartsWith(encoding, "json/protobuf")

decodePayload(p, threshold) ==
    IF p = Null \/ "data" \notin DOMAIN p THEN Null
    ELSE LET encoding == MetadataText(p, "encoding", "")
         IN IF IsEncryptedTag(encoding) THEN EncryptedMarker
            ELSE IF IsProtobufTag(encoding)
            THEN ProtobufMarker(MetadataText(p, "messageType", "unknown"))
            ELSE TryCatch(JsonBranch(p, threshold), Str(TextDecode(p.data)))

(***************************************************************************)
(* Diff engine                                                             *)
(***************************************************************************)

\* A field of a JavaScript object held as a record: undefined when absent.
Field(r, f) == IF f \in DOMAIN r THEN r[f] ELSE Undefined

\* A slip: the two sides recorded the wrong way round.
DiffResult_Swapped(path, a, b) ==
    [path |-> path, valueA |-> b, valueB |-> a, note |-> "Different values at " \o path]

DiffResult(path, a, b) ==
    [path |-> path, valueA |-> a, valueB |-> b, note |-> "Different values at " \o path]

\* A slip: the keys of a alone are gone through.
AllKeys_OfA(a, b) == Keys(a)

\* new Set([...Object.keys(a), ...Object.keys(b)]), in insertion order.
AllKeys(a, b) == Dedup(Keys(a) \o Keys(b))

RECURSIVE deepDiff(_, _, _)
deepDiff(a, b, basePath) ==
    IF StrictEq(a, b) THEN <<>>
    ELSE IF a = Undefined /\ b = Undefined THEN <<>>
    ELSE IF a = Null /\ b = Null THEN <<>>
    ELSE IF IsString(a) /\ IsString(b)
    THEN (IF a # b THEN <<DiffResult(basePath, a, b)>> ELSE <<>>)
    ELSE IF a # Null /\ b # Null /\ TypeofObject(a) /\ TypeofObject(b)
            /\ ~IsArray(a) /\ ~IsArray(b)
    THEN LET allKeys == AllKeys(a, b)
             RECURSIVE perKey(_)
             perKey(i) ==
                 IF i > Len(allKeys) THEN <<>>
                 ELSE deepDiff(GetKey(a, allKeys[i]), GetKey(b, allKeys[i]),
                               basePath \o "." \o allKeys[i])
                      \o perKey(i + 1)
         IN perKey(1)
    ELSE IF IsArray(a) /\ IsArray(b)
    THEN LET maxLen == Max(Len(a.e), Len(b.e))
             RECURSIVE perIndex(_)
             perIndex(i) ==
                 IF i >= maxLen THEN <<>>
                 ELSE deepDiff(GetIndex(a, i), GetIndex(b, i),
                               basePath \o "[" \o ToString(i) \o "]")
                      \o perIndex(i + 1)
         IN perIndex(0)
    ELSE IF a # b THEN <<DiffResult(basePath, a, b)>>
    ELSE <<>>

AlignedPair(a, b) == [a |-> a, b |-> b]

\* A slip: the steps of B already matched are not skipped.
FirstUnused_IgnoringUsed(timelineB, usedB, activity) ==
    LET hits == {i \in 1..Len(timelineB) : timelineB[i].activity = activity}
    IN IF hits = {} THEN 0 ELSE CHOOSE i \in hits : \A j \in hits : i <= j

\* A slip: the last unused step of B with the name is taken.
FirstUnused_Last(timelineB, usedB, activity) ==
    LET hits == {i \in 1..Len(timelineB) :
                    i \notin usedB /\ timelineB[i].activity = activity}
    IN IF hits = {} THEN 0 ELSE CHOOSE i \in hits : \A j \in hits : j <= i

\* The first index of timelineB not in usedB whose activity is `activity`; 0
\* when there is none.
FirstUnused(timelineB, usedB, activity) ==
    LET hits == {i \in 1..Len(timelineB) :
                    i \notin usedB /\ timelineB[i].activity = activity}
    IN IF hits = {} THEN 0 ELSE CHOOSE i \in hits : \A j \in hits : i <= j

alignTimelines(timelineA, timelineB) ==
    LET RECURSIVE forA(_, _)
        \* the pairs of timelineA[k..], and the indices of B used when done
        forA(k, usedB) ==
            IF k > Len(timelineA) THEN [pairs |-> <<>>, usedB |-> usedB]
            ELSE LET i == FirstUnused(timelineB, usedB, timelineA[k].activity)
                     rest == forA(k + 1, IF i = 0 THEN usedB ELSE usedB \cup {i})
                     pair == IF i = 0 THEN AlignedPair(timelineA[k], Null)
                             ELSE AlignedPair(timelineA[k], timelineB[i])
                 IN [pairs |-> <<pair>> \o rest.pairs, usedB |-> rest.usedB]
        matched == forA(1, {})
        unmatchedB == SelectSeq([i \in 1..Len(timelineB) |-> i],
                                LAMBDA i : i \notin matched.usedB)
    IN matched.pairs
       \o [n \in 1..Len(unmatchedB) |-> AlignedPair(Null, timelineB[unmatchedB[n]])]

\* pair.a.retries || 0
RetriesOrZero(s) == IF "retries" \in DOMAIN s THEN s.retries ELSE 0

Divergence(stepA, field, valueA, valueB, note) ==
    [step |-> stepA.step, activity |-> stepA.activity, field |-> field,
     value_a |-> valueA, value_b |-> valueB, note |-> note]

FromDiffs(stepA, diffs) ==
    [i \in 1..Len(diffs) |->
        Divergence(stepA, diffs[i].path, diffs[i].valueA, diffs[i].valueB, diffs[i].note)]

\* The divergences one aligned pair adds (the body of the loop).
PairDivergences(pair) ==
    IF pair.a = Null \/ pair.b = Null THEN <<>>
    ELSE LET inputA == Coalesce(Field(pair.a, "input"), Field(pair.a, "input_summary"))
             inputB == Coalesce(Field(pair.b, "input"), Field(pair.b, "input_summary"))
             outputA == Coalesce(Field(pair.a, "output"), Field(pair.a, "output_summary"))
             outputB == Coalesce(Field(pair.b, "output"), Field(pair.b, "output_summary"))
         IN FromDiffs(pair.a, deepDiff(inputA, inputB, "input"))
            \o FromDiffs(pair.a, deepDiff(outputA, outputB, "output"))
            \o (IF pair.a.status # pair.b.status
                THEN <<Divergence(pair.a, "status", Str(pair.a.status), Str(pair.b.status),
                                  "Activity " \o pair.a.activity
                                  \o " has different status in each execution")>>
                ELSE <<>>)
            \o (IF RetriesOrZero(pair.a) # RetriesOrZero(pair.b)
                THEN <<Divergence(pair.a, "retries", Num(RetriesOrZero(pair.a)),
                                  Num(RetriesOrZero(pair.b)),
                                  "Different retry counts for " \o pair.a.activity)>>
                ELSE <<>>)

findDataDivergences(timelineA, timelineB) ==
    LET aligned == alignTimelines(timelineA, timelineB)
        RECURSIVE each(_)
        each(i) == IF i > Len(aligned) THEN <<>>
                   ELSE PairDivergences(aligned[i]) \o each(i + 1)
    IN each(1)

\* A slip: the common names compared as sets, not as sequences.
findStructuralDifferences_AsSets(timelineA, timelineB) ==
    LET typesA == [i \in 1..Len(timelineA) |-> timelineA[i].activity]
        typesB == [i \in 1..Len(timelineB) |-> timelineB[i].activity]
        setA == Range(typesA)
        setB == Range(typesB)
        commonA == SelectSeq(typesA, LAMBDA x : x \in setB)
        commonB == SelectSeq(typesB, LAMBDA x : x \in setA)
    IN [activities_only_in_a |-> Dedup(SelectSeq(typesA, LAMBDA x : x \notin setB)),
        activities_only_in_b |-> Dedup(SelectSeq(typesB, LAMBDA x : x \notin setA)),
        different_execution_order |->
            Len(commonA) > 0 /\ Len(commonB) > 0 /\ Range(commonA) # Range(commonB)]

\* A slip: the names on one side only are not deduplicated.
findStructuralDifferences_NoDedup(timelineA, timelineB) ==
    LET typesA == [i \in 1..Len(timelineA) |-> timelineA[i].activity]
        typesB == [i \in 1..Len(timelineB) |-> timelineB[i].activity]
        setA == Range(typesA)
        setB == Range(typesB)
        commonA == SelectSeq(typesA, LAMBDA x : x \in setB)
        commonB == SelectSeq(typesB, LAMBDA x : x \in setA)
    IN [activities_only_in_a |-> SelectSeq(typesA, LAMBDA x : x \notin setB),
        activities_only_in_b |-> SelectSeq(typesB, LAMBDA x : x \notin setA),
        different_execution_order |->
            Len(commonA) > 0 /\ Len(commonB) > 0 /\ commonA # commonB]

findStructuralDifferences(timelineA, timelineB) ==
    LET typesA == [i \in 1..Len(timelineA) |-> timelineA[i].activity]
        typesB == [i \in 1..Len(timelineB) |-> timelineB[i].activity]
        setA == Range(typesA)
        setB == Range(typesB)
        onlyInA == SelectSeq(typesA, LAMBDA x : x \notin setB)
        onlyInB == SelectSeq(typesB, LAMBDA x : x \notin setA)
        commonA == SelectSeq(typesA, LAMBDA x : x \in setB)
        commonB == SelectSeq(typesB, LAMBDA x : x \in setA)
        asJSON(names) == JSONStringify(Arr([i \in 1..Len(names) |-> Str(names[i])]))
        differentOrder == /\ Len(commonA) > 0
                          /\ Len(commonB) > 0
                          /\ asJSON(commonA) # asJSON(commonB)
    IN [activities_only_in_a |-> Dedup(onlyInA),
        activities_only_in_b |-> Dedup(onlyInB),
        different_execution_order |-> differentOrder]

findSignalDifferences(hA, hB) ==
    LET sigNamesA == Dedup([i \in 1..Len(hA.signals_received) |-> hA.signals_received[i].name])
        sigNamesB == Dedup([i \in 1..Len(hB.signals_received) |-> hB.signals_received[i].name])
    IN [signals_only_in_a |-> SelectSeq(sigNamesA, LAMBDA x : x \notin Range(sigNamesB)),
        signals_only_in_b |-> SelectSeq(sigNamesB, LAMBDA x : x \notin Range(sigNamesA))]

diffExecutions(hA, hB) ==
    [divergences |-> findDataDivergences(hA.timeline, hB.timeline),
     structural_differences |-> findStructuralDifferences(hA.timeline, hB.timeline),
     signals |-> findSignalDifferences(hA, hB)]

(***************************************************************************)
(* Event classifier                                                        *)
(*                                                                         *)
(* A history event is a record with an eventId, an eventType (the numeric *)
(* code), an optional eventTime ([seconds, nanos]) and optional attrs,    *)
(* the attributes that belong to its type.                                 *)
(***************************************************************************)
EventTypeNames ==
    <<"WorkflowExecutionStarted", "WorkflowExecutionCompleted", "WorkflowExecutionFailed",
      "WorkflowExecutionTimedOut", "WorkflowTaskScheduled", "WorkflowTaskStarted",
      "WorkflowTaskCompleted", "WorkflowTaskTimedOut", "WorkflowTaskFailed",
      "ActivityTaskScheduled", "ActivityTaskStarted", "ActivityTaskCompleted",
      "ActivityTaskFailed", "ActivityTaskTimedOut", "ActivityTaskCancelRequested",
      "ActivityTaskCanceled", "TimerStarted", "TimerFired", "TimerCanceled",
      "WorkflowExecutionCancelRequested", "WorkflowExecutionCanceled",
      "RequestCancelExternalWorkflowExecutionInitiated",
      "RequestCancelExternalWorkflowExecutionFailed",
      "ExternalWorkflowExecutionCancelRequested", "MarkerRecorded",
      "WorkflowExecutionSignaled", "WorkflowExecutionTerminated",
      "WorkflowExecutionContinuedAsNew", "StartChildWorkflowExecutionInitiated",
      "StartChildWorkflowExecutionFailed", "ChildWorkflowExecutionStarted",
      "ChildWorkflowExecutionCompleted", "ChildWorkflowExecutionFailed",
      "ChildWorkflowExecutionCanceled", "ChildWorkflowExecutionTimedOut",
      "ChildWorkflowExecutionTerminated", "SignalExternalWorkflowExecutionInitiated",
      "SignalExternalWorkflowExecutionFailed", "ExternalWorkflowExecutionSignaled",
      "UpsertWorkflowSearchAttributes">>

eventTypeNumberToName(num) ==
    IF num \in 1..Len(EventTypeNames) THEN EventTypeNames[num]
    ELSE "UnknownEventType(" \o ToString(num) \o ")"

resolveEventType(event) ==
    IF "eventType" \in DOMAIN event THEN eventTypeNumberToName(event.eventType)
    ELSE "Unknown"

INTERNAL_EVENT_TYPES ==
    {"WorkflowTaskScheduled", "WorkflowTaskStarted", "WorkflowTaskCompleted",
     "WorkflowTaskFailed", "WorkflowTaskTimedOut"}

UpperCase == "ABCDEFGHIJKLMNOPQRSTUVWXYZ"
LowerCase == "abcdefghijklmnopqrstuvwxyz"

UpperToLower ==
    [c \in {CharAt(UpperCase, i) : i \in 1..Len(UpperCase)} |->
        CharAt(LowerCase, CHOOSE i \in 1..Len(UpperCase) : CharAt(UpperCase, i) = c)]

LowerChar(c) == IF c \in DOMAIN UpperToLower THEN UpperToLower[c] ELSE c

\* s.toLowerCase()
ToLowerCase(s) == ConcatAll([i \in 1..Len(s) |-> LowerChar(CharAt(s, i))])

\* The lower-cased names of the known event types.
LowerCaseNames == [n \in 1..Len(EventTypeNames) |-> ToLowerCase(EventTypeNames[n])]

\* resolveEventType(event).toLowerCase()
LowerCaseTypeOf(event) ==
    IF "eventType" \in DOMAIN event /\ event.eventType \in 1..Len(EventTypeNames)
    THEN LowerCaseNames[event.eventType]
    ELSE ToLowerCase(resolveEventType(event))

filterByEventTypes(evs, eventTypes) ==
    LET typeSet == {ToLowerCase(eventTypes[i]) : i \in 1..Len(eventTypes)}
    IN SelectSeq(evs, LAMBDA event : LowerCaseTypeOf(event) \in typeSet)

filterInternalEvents(evs) ==
    SelectSeq(evs, LAMBDA event : resolveEventType(event) \notin INTERNAL_EVENT_TYPES)

\* events.find(e => resolveEventType(e) === name): the first such event, or
\* undefined.
FindEvent(evs, name) ==
    LET hits == {i \in 1..Len(evs) : resolveEventType(evs[i]) = name}
    IN IF hits = {} THEN Undefined
       ELSE evs[CHOOSE i \in hits : \A j \in hits : i <= j]

(***************************************************************************)
(* Attributes of an event                                                  *)
(***************************************************************************)
HasAttr(event, f) == "attrs" \in DOMAIN event /\ f \in DOMAIN event.attrs

\* (attrs?.f as string) || dflt
StringAttr(event, f, dflt) ==
    IF HasAttr(event, f) /\ event.attrs[f] # "" THEN event.attrs[f] ELSE dflt

\* (attrs?.f as { name?: string })?.name || dflt
NameAttr(event, f, dflt) ==
    IF HasAttr(event, f) /\ "name" \in DOMAIN event.attrs[f] /\ event.attrs[f].name # ""
    THEN event.attrs[f].name
    ELSE dflt

\* attrs?.f as a payload list.  decodePayloads treats a list that is absent
\* as it treats an empty one.
PayloadsAttr(event, f) == IF HasAttr(event, f) THEN event.attrs[f] ELSE <<>>

\* attrs?.f as a record; undefined when absent.
RecordAttr(event, f) == IF HasAttr(event, f) THEN event.attrs[f] ELSE Undefined

(***************************************************************************)
(* Activity grouper                                                        *)
(*                                                                         *)
(* The Map of groups is a sequence in insertion order; a group is a       *)
(* record with activityType, activityId and the slots it has.              *)
(***************************************************************************)
ActivityTaskKinds ==
    {"ActivityTaskScheduled", "ActivityTaskStarted", "ActivityTaskCompleted",
     "ActivityTaskFailed", "ActivityTaskTimedOut", "ActivityTaskCanceled"}

\* The slot each kind of event fills.
SlotOf(eventType) ==
    CASE eventType = "ActivityTaskStarted" -> "started"
      [] eventType = "ActivityTaskCompleted" -> "completed"
      [] eventType = "ActivityTaskFailed" -> "failed"
      [] eventType = "ActivityTaskTimedOut" -> "timedOut"
      [] eventType = "ActivityTaskCanceled" -> "canceled"

\* group.slot = event
SetSlot(group, slot, event) ==
    [f \in DOMAIN group \cup {slot} |-> IF f = slot THEN event ELSE group[f]]

\* String(attrs?.scheduledEventId || "")
ScheduledIdOf(event) ==
    IF HasAttr(event, "scheduledEventId") /\ event.attrs.scheduledEventId # 0
    THEN ToString(event.attrs.scheduledEventId)
    ELSE ""

\* String(group.scheduled.eventId)
EventIdString(event) ==
    IF "eventId" \in DOMAIN event THEN ToString(event.eventId) ELSE "undefined"

\* The index of the first group whose scheduling event has this id; 0 when
\* there is none.
GroupOfScheduled(gs, scheduledId) ==
    LET hits == {i \in 1..Len(gs) :
                    "scheduled" \in DOMAIN gs[i]
                    /\ EventIdString(gs[i].scheduled) = scheduledId}
    IN IF hits = {} THEN 0 ELSE CHOOSE i \in hits : \A j \in hits : i <= j

\* The index of the group with this activity id; 0 when there is none.
GroupOfActivity(gs, activityId) ==
    LET hits == {i \in 1..Len(gs) : gs[i].activityId = activityId}
    IN IF hits = {} THEN 0 ELSE CHOOSE i \in hits : TRUE

\* A slip: an activity scheduled again moves to the end of the Map.
GroupScheduled_MovingToEnd(gs, event) ==
    LET activityId == StringAttr(event, "activityId", "")
        activityType == NameAttr(event, "activityType", "Unknown")
        at == GroupOfActivity(gs, activityId)
    IN IF activityId = "" THEN gs
       ELSE IF at = 0
       THEN Append(gs, [activityType |-> activityType, activityId |-> activityId,
                            scheduled |-> event])
       ELSE Append(SelectSeq(gs, LAMBDA g : g.activityId # activityId),
                   SetSlot(gs[at], "scheduled", event))

\* The branch for an ActivityTaskScheduled event.
GroupScheduled(gs, event) ==
    LET activityId == StringAttr(event, "activityId", "")
        activityType == NameAttr(event, "activityType", "Unknown")
        at == GroupOfActivity(gs, activityId)
    IN IF activityId = "" THEN gs
       ELSE IF at = 0
       THEN Append(gs, [activityType |-> activityType, activityId |-> activityId,
                            scheduled |-> event])
       ELSE [gs EXCEPT ![at] = SetSlot(gs[at], "scheduled", event)]

GroupBackReference_Creating(gs, event, slot) ==
    LET at == GroupOfScheduled(gs, ScheduledIdOf(event))
    IN IF at = 0
       THEN Append(gs, SetSlot([activityType |-> "Unknown",
                                    activityId |-> ScheduledIdOf(event)], slot, event))
       ELSE [gs EXCEPT ![at] = SetSlot(gs[at], slot, event)]

\* The branch for a started, completed, failed, timed-out or canceled event.
GroupBackReference(gs, event, slot) ==
    LET at == GroupOfScheduled(gs, ScheduledIdOf(event))
    IN IF at = 0 THEN gs
       ELSE [gs EXCEPT ![at] = SetSlot(gs[at], slot, event)]

\* One iteration of the loop over the events.
GroupStep(gs, event) ==
    LET eventType == resolveEventType(event)
    IN IF eventType = "ActivityTaskScheduled" THEN GroupScheduled(gs, event)
       ELSE IF eventType \in ActivityTaskKinds
       THEN GroupBackReference(gs, event, SlotOf(eventType))
       ELSE gs

\* The loop; the events of other kinds, which take none of its branches, are
\* passed over together.
groupActivityEvents(evs) ==
    LET relevant == SelectSeq(evs, LAMBDA e : resolveEventType(e) \in ActivityTaskKinds)
        RECURSIVE loop(_, _)
        loop(i, gs) ==
            IF i > Len(relevant) THEN gs
            ELSE loop(i + 1, GroupStep(gs, relevant[i]))
    IN loop(1, <<>>)

(***************************************************************************)
(* History summarizer: utilities                                           *)
(***************************************************************************)
LargeHistoryEvents == 10000
SummaryChars == 200
SummaryKept == 197

decodePayloads(payloads, threshold) ==
    [i \in 1..Len(payloads) |-> decodePayload(payloads[i], threshold)]

decodeSinglePayload(payloads, threshold) ==
    LET values == decodePayloads(payloads, threshold)
    IN IF Len(values) = 1 THEN values[1]
       ELSE IF Len(values) = 0 THEN Null
       ELSE Arr(values)

\* event.eventTime; undefined when absent.
TimeOf(event) == IF "eventTime" \in DOMAIN event THEN event.eventTime ELSE Undefined

\* ts.f || 0
TimePart(ts, f) == IF f \in DOMAIN ts THEN ts[f] ELSE 0

\* The sample times hold whole milliseconds, so the division is exact.
timestampToMs(ts) ==
    IF ts = Undefined THEN Null
    ELSE Num(TimePart(ts, "seconds") * 1000 + TimePart(ts, "nanos") \div 1000000)

computeDurationMs(start, end) ==
    LET startMs == timestampToMs(start)
        endMs == timestampToMs(end)
    IN IF startMs = Null \/ endMs = Null THEN Null ELSE Num(endMs.n - startMs.n)

\* n in decimal, with leading zeros up to the width.
RECURSIVE Padded(_, _)
Padded(n, width) ==
    IF Len(ToString(n)) >= width THEN ToString(n)
    ELSE "0" \o Padded(n, width - 1)

\* new Date(ms).toISOString(), for a time in January 1970.
ToISOString(ms) ==
    "1970-01-" \o Padded(ms \div 86400000 + 1, 2) \o "T"
    \o Padded((ms \div 3600000) % 24, 2) \o ":" \o Padded((ms \div 60000) % 60, 2) \o ":"
    \o Padded((ms \div 1000) % 60, 2) \o "." \o Padded(ms % 1000, 3) \o "Z"

formatTimestamp(ts) ==
    IF ts = Undefined THEN Null ELSE Str(ToISOString(timestampToMs(ts).n))

\* formatTimestamp(ts) || ""
TimestampOrEmpty(ts) == IF ts = Undefined THEN "" ELSE formatTimestamp(ts).v

\* Math.round(a / b) for positive a and b.
RoundDiv(a, b) == (2 * a + b) \div (2 * b)

formatDuration(duration) ==
    IF duration = Undefined THEN "unknown"
    ELSE LET seconds == TimePart(duration, "seconds")
         IN IF seconds >= 3600 THEN ToString(RoundDiv(seconds, 3600)) \o "h"
            ELSE IF seconds >= 60 THEN ToString(RoundDiv(seconds, 60)) \o "m"
            ELSE ToString(seconds) \o "s"

\* failure.f || dflt, as a string
FailureText(failure, f, dflt) ==
    IF f \in DOMAIN failure /\ failure[f] # "" THEN failure[f] ELSE dflt

RECURSIVE extractFailure(_)
extractFailure(failure) ==
    IF failure = Undefined THEN Null
    ELSE Obj(<<Entry("message", Str(FailureText(failure, "message", "Unknown error"))),
               Entry("type", Str(FailureText(failure, "type",
                                             FailureText(failure, "source", "unknown")))),
               Entry("stackTrace", IF FailureText(failure, "stackTrace", "") # ""
                                   THEN Str(failure.stackTrace) ELSE Undefined),
               Entry("cause", IF "cause" \in DOMAIN failure
                              THEN extractFailure(failure.cause) ELSE Undefined)>>)

extractFailureMessage(failure) ==
    IF failure = Undefined THEN "Unknown error"
    ELSE FailureText(failure, "message", "Unknown error")

summarizeValue(value) ==
    IF value = Null \/ value = Undefined THEN "null"
    ELSE LET json == JSONStringify(value)
         IN IF Len(json) <= SummaryChars THEN json
            ELSE SubSeq(json, 1, SummaryKept) \o "..."

(***************************************************************************)
(* History summarizer: the timeline                                        *)
(***************************************************************************)
\* group.slot?.eventTime
SlotTime(group, slot) ==
    IF slot \in DOMAIN group THEN TimeOf(group[slot]) ELSE Undefined

\* a || b, for two times
OrElse(a, b) == IF a # Undefined THEN a ELSE b

\* A slip: the started event's time taken as the end when there is one.
EndTime_StartedFirst(group) ==
    OrElse(SlotTime(group, "started"),
           OrElse(SlotTime(group, "completed"), SlotTime(group, "failed")))

EndTime(group) ==
    OrElse(SlotTime(group, "completed"),
           OrElse(SlotTime(group, "failed"),
                  OrElse(SlotTime(group, "timedOut"), SlotTime(group, "canceled"))))

\* A slip: a failure outranks a completion.
ActivityStatus_FailedFirst(group) ==
    IF "failed" \in DOMAIN group THEN "failed"
    ELSE IF "completed" \in DOMAIN group THEN "completed"
    ELSE IF "timedOut" \in DOMAIN group THEN "timed_out"
    ELSE IF "canceled" \in DOMAIN group THEN "canceled"
    ELSE IF "started" \in DOMAIN group THEN "started"
    ELSE "scheduled"

ActivityStatus(group) ==
    IF "completed" \in DOMAIN group THEN "completed"
    ELSE IF "failed" \in DOMAIN group THEN "failed"
    ELSE IF "timedOut" \in DOMAIN group THEN "timed_out"
    ELSE IF "canceled" \in DOMAIN group THEN "canceled"
    ELSE IF "started" \in DOMAIN group THEN "started"
    ELSE "scheduled"

\* (startedAttrs?.attempt as number) || 1
Attempt(group) ==
    IF "started" \in DOMAIN group /\ HasAttr(group.started, "attempt")
       /\ group.started.attrs.attempt # 0
    THEN group.started.attrs.attempt
    ELSE 1

\* The record r with the field f set to v.
With(r, f, v) == [g \in DOMAIN r \cup {f} |-> IF g = f THEN v ELSE r[g]]

\* One iteration of buildTimeline's loop: the entry pushed for a group.
TimelineEntry(group, step, detailLevel, threshold) ==
    LET scheduledTime == SlotTime(group, "scheduled")
        endTime == EndTime(group)
        durationMs == IF scheduledTime # Undefined /\ endTime # Undefined
                      THEN computeDurationMs(scheduledTime, endTime)
                      ELSE Null
        input == IF "scheduled" \in DOMAIN group
                 THEN decodeSinglePayload(PayloadsAttr(group.scheduled, "input"), threshold)
                 ELSE Null
        activityStatus == ActivityStatus(group)
        output == IF activityStatus = "completed"
                  THEN decodeSinglePayload(PayloadsAttr(group.completed, "result"), threshold)
                  ELSE Null
        entry == [step |-> step, activity |-> group.activityType,
                  status |-> activityStatus, duration_ms |-> durationMs]
        retried == IF Attempt(group) > 1 THEN With(entry, "retries", Attempt(group) - 1)
                   ELSE entry
        filled == IF detailLevel = "summary"
                  THEN With(With(retried, "input_summary", summarizeValue(input)),
                            "output_summary", summarizeValue(output))
                  ELSE With(With(retried, "input", input), "output", output)
    IN IF activityStatus = "failed"
       THEN With(filled, "failure",
                 extractFailureMessage(RecordAttr(group.failed, "failure")))
       ELSE filled

buildTimeline(gs, detailLevel, threshold) ==
    [i \in 1..Len(gs) |-> TimelineEntry(gs[i], i, detailLevel, threshold)]

(***************************************************************************)
(* History summarizer: signals, timers and child workflows                 *)
(***************************************************************************)
OfType(evs, names) == SelectSeq(evs, LAMBDA e : resolveEventType(e) \in names)

extractSignals(evs, threshold) ==
    LET signaled == OfType(evs, {"WorkflowExecutionSignaled"})
    IN [i \in 1..Len(signaled) |->
          [name |-> StringAttr(signaled[i], "signalName", "unknown"),
           time |-> TimestampOrEmpty(TimeOf(signaled[i])),
           input |-> decodeSinglePayload(PayloadsAttr(signaled[i], "input"), threshold)]]

\* A slip: the first TimerStarted event stored under the id is kept.
TimerStart_First(evs, timerId) ==
    LET started == OfType(evs, {"TimerStarted"})
        hits == {i \in 1..Len(started) : StringAttr(started[i], "timerId", "") = timerId}
    IN IF hits = {} THEN Undefined
       ELSE started[CHOOSE i \in hits : \A j \in hits : i <= j]

\* timerStarts.get(timerId): the last TimerStarted event of the whole list
\* stored under the id, or undefined.
TimerStart(evs, timerId) ==
    LET started == OfType(evs, {"TimerStarted"})
        hits == {i \in 1..Len(started) : StringAttr(started[i], "timerId", "") = timerId}
    IN IF hits = {} THEN Undefined
       ELSE started[CHOOSE i \in hits : \A j \in hits : j <= i]

extractTimers(evs) ==
    LET fired == OfType(evs, {"TimerFired"})
    IN [i \in 1..Len(fired) |->
          LET timerId == StringAttr(fired[i], "timerId", "unknown")
              startEvent == TimerStart(evs, timerId)
          IN [timer_id |-> timerId,
              duration |-> formatDuration(IF startEvent = Undefined THEN Undefined
                                          ELSE RecordAttr(startEvent, "startToFireTimeout")),
              fired_time |-> TimestampOrEmpty(TimeOf(fired[i]))]]

ChildStatusOf(eventType) ==
    CASE eventType = "ChildWorkflowExecutionStarted" -> "started"
      [] eventType = "ChildWorkflowExecutionCompleted" -> "completed"
      [] eventType = "ChildWorkflowExecutionFailed" -> "failed"

ChildEventKinds ==
    {"StartChildWorkflowExecutionInitiated", "ChildWorkflowExecutionStarted",
     "ChildWorkflowExecutionCompleted", "ChildWorkflowExecutionFailed"}

\* The index of the child stored under the workflow id; 0 when there is none.
ChildAt(children, wfId) ==
    LET hits == {i \in 1..Len(children) : children[i].workflow_id = wfId}
    IN IF hits = {} THEN 0 ELSE CHOOSE i \in hits : TRUE

\* A slip: a started, completed or failed event of an id that is not stored
\* stores a child.
ChildStep_Creating(children, event) ==
    LET eventType == resolveEventType(event)
    IN IF eventType = "StartChildWorkflowExecutionInitiated"
       THEN LET wfId == StringAttr(event, "workflowId", "")
                child == [workflow_id |-> wfId,
                          workflow_type |-> NameAttr(event, "workflowType", "Unknown"),
                          status |-> "initiated"]
            IN IF ChildAt(children, wfId) = 0 THEN Append(children, child)
               ELSE [children EXCEPT ![ChildAt(children, wfId)] = child]
       ELSE IF eventType \in ChildEventKinds
       THEN LET wfId == IF HasAttr(event, "workflowExecution")
                           /\ "workflowId" \in DOMAIN event.attrs.workflowExecution
                        THEN event.attrs.workflowExecution.workflowId
                        ELSE ""
            IN IF ChildAt(children, wfId) = 0
               THEN Append(children, [workflow_id |-> wfId, workflow_type |-> "Unknown",
                                      status |-> ChildStatusOf(eventType)])
               ELSE [children EXCEPT ![ChildAt(children, wfId)].status =
                                          ChildStatusOf(eventType)]
       ELSE children

\* One iteration of extractChildWorkflows' loop.
ChildStep(children, event) ==
    LET eventType == resolveEventType(event)
    IN IF eventType = "StartChildWorkflowExecutionInitiated"
       THEN LET wfId == StringAttr(event, "workflowId", "")
                child == [workflow_id |-> wfId,
                          workflow_type |-> NameAttr(event, "workflowType", "Unknown"),
                          status |-> "initiated"]
            IN IF ChildAt(children, wfId) = 0 THEN Append(children, child)
               ELSE [children EXCEPT ![ChildAt(children, wfId)] = child]
       ELSE IF eventType \in ChildEventKinds
       THEN LET wfId == IF HasAttr(event, "workflowExecution")
                           /\ "workflowId" \in DOMAIN event.attrs.workflowExecution
                        THEN event.attrs.workflowExecution.workflowId
                        ELSE ""
            IN IF ChildAt(children, wfId) = 0 THEN children
               ELSE [children EXCEPT ![ChildAt(children, wfId)].status =
                                          ChildStatusOf(eventType)]
       ELSE children

\* The loop; the events that take none of its branches are passed over
\* together.
extractChildWorkflows(evs) ==
    LET relevant == OfType(evs, ChildEventKinds)
        RECURSIVE loop(_, _)
        loop(i, children) ==
            IF i > Len(relevant) THEN children
            ELSE loop(i + 1, ChildStep(children, relevant[i]))
    IN loop(1, <<>>)

(***************************************************************************)
(* History summarizer                                                      *)
(***************************************************************************)
buildFullHistory(workflowId, runId, evs) ==
    LET filtered == filterInternalEvents(evs)
        startEvent == FindEvent(evs, "WorkflowExecutionStarted")
    IN [workflow_id |-> workflowId,
        run_id |-> runId,
        workflow_type |-> IF startEvent = Undefined THEN "Unknown"
                          ELSE NameAttr(startEvent, "workflowType", "Unknown"),
        status |-> "FULL_HISTORY",
        start_time |-> IF startEvent = Undefined THEN ""
                       ELSE TimestampOrEmpty(TimeOf(startEvent)),
        close_time |-> Null,
        input |-> IF startEvent = Undefined THEN Null
                  ELSE decodeSinglePayload(PayloadsAttr(startEvent, "input"), Undefined),
        result |-> Null,
        timeline |-> [i \in 1..Len(filtered) |->
                        [step |-> i, activity |-> resolveEventType(filtered[i]),
                         status |-> "event", duration_ms |-> Null,
                         input |-> filtered[i]]],
        signals_received |-> <<>>,
        timers_fired |-> <<>>,
        child_workflows |-> <<>>,
        failure |-> Null,
        warning |-> "Full history with " \o ToString(Len(evs)) \o " events ("
                    \o ToString(Len(filtered)) \o " after filtering internal events)."]

\* The terminal event that decides status, result, failure and close time:
\* the first present of completed, failed, timed out, canceled, terminated.
TerminalKinds ==
    <<"WorkflowExecutionCompleted", "WorkflowExecutionFailed", "WorkflowExecutionTimedOut",
      "WorkflowExecutionCanceled", "WorkflowExecutionTerminated">>
TerminalStatus == <<"COMPLETED", "FAILED", "TIMED_OUT", "CANCELED", "TERMINATED">>

\* A slip: a history of exactly 10,000 events counted as large.
ExceedsLargeHistory_Inclusive(count) == count >= LargeHistoryEvents

\* events.length > 10000
ExceedsLargeHistory(count) == count > LargeHistoryEvents

\* The caller's event list once a call has returned.  summarizeHistory and
\* its helpers build new arrays with filter and map and assign to no event,
\* so the list is what it was.
EventsAfterCall_FilteredInPlace(evs, opts) ==
    IF opts.detailLevel = "full" THEN filterInternalEvents(evs)
    ELSE IF "eventTypes" \in DOMAIN opts THEN filterByEventTypes(evs, opts.eventTypes)
    ELSE evs

EventsAfterCall(evs, opts) == evs

\* A slip: the terminal event that stands first in the log decides.
DecidingKind_ByPosition(evs) ==
    LET terminal == {i \in 1..Len(evs) :
                       \E k \in 1..Len(TerminalKinds) : resolveEventType(evs[i]) = TerminalKinds[k]}
    IN IF terminal = {} THEN 0
       ELSE LET i == CHOOSE i \in terminal : \A j \in terminal : i <= j
            IN CHOOSE k \in 1..Len(TerminalKinds) : resolveEventType(evs[i]) = TerminalKinds[k]

\* The if / else if chain over completedEvent, failedEvent, timedOutEvent,
\* canceledEvent and terminatedEvent: the place in TerminalKinds of the first
\* kind an event of which was found, 0 when none was.
DecidingKind(evs) ==
    LET present == {k \in 1..Len(TerminalKinds) : FindEvent(evs, TerminalKinds[k]) # Undefined}
    IN IF present = {} THEN 0 ELSE CHOOSE k \in present : \A j \in present : k <= j

\* A slip: signals, timers and child workflows read from the filtered list.
ExtractionEvents_Filtered(evs, filteredEvents) == filteredEvents

\* The list handed to extractSignals, extractTimers and
\* extractChildWorkflows: events, not filteredEvents.
ExtractionEvents(evs, filteredEvents) == evs

\* A slip: the threshold applied at every fidelity.
TruncateAt_Always(detailLevel) == Num(SUMMARY_TRUNCATE_BYTES)

\* detailLevel === "summary" ? SUMMARY_TRUNCATE_BYTES : undefined
TruncateAt(detailLevel) ==
    IF detailLevel = "summary" THEN Num(SUMMARY_TRUNCATE_BYTES) ELSE Undefined

summarizeHistory(workflowId, runId, evs, opts) ==
    IF opts.detailLevel = "full" THEN buildFullHistory(workflowId, runId, evs)
    ELSE
    LET filteredEvents == IF "eventTypes" \in DOMAIN opts
                          THEN filterByEventTypes(evs, opts.eventTypes)
                          ELSE evs
        startEvent == FindEvent(evs, "WorkflowExecutionStarted")
        first == DecidingKind(evs)
        closing == IF first = 0 THEN Undefined ELSE FindEvent(evs, TerminalKinds[first])
        threshold == TruncateAt(opts.detailLevel)
        summary ==
           [workflow_id |-> workflowId,
            run_id |-> runId,
            workflow_type |-> IF startEvent = Undefined THEN "Unknown"
                              ELSE NameAttr(startEvent, "workflowType", "Unknown"),
            status |-> IF first = 0 THEN "RUNNING" ELSE TerminalStatus[first],
            start_time |-> IF startEvent = Undefined THEN ""
                           ELSE TimestampOrEmpty(TimeOf(startEvent)),
            close_time |-> IF first = 0 THEN Null ELSE formatTimestamp(TimeOf(closing)),
            input |-> IF startEvent = Undefined THEN Null
                      ELSE decodeSinglePayload(PayloadsAttr(startEvent, "input"), threshold),
            result |-> IF first = 1
                       THEN decodeSinglePayload(PayloadsAttr(closing, "result"), threshold)
                       ELSE Null,
            timeline |-> buildTimeline(groupActivityEvents(filteredEvents),
                                       opts.detailLevel, threshold),
            signals_received |-> extractSignals(ExtractionEvents(evs, filteredEvents), threshold),
            timers_fired |-> extractTimers(ExtractionEvents(evs, filteredEvents)),
            child_workflows |-> extractChildWorkflows(ExtractionEvents(evs, filteredEvents)),
            failure |-> IF first = 2 THEN extractFailure(RecordAttr(closing, "failure"))
                        ELSE Null]
    IN IF ExceedsLargeHistory(Len(evs))
       THEN With(summary, "warning",
                 "This workflow has " \o ToString(Len(evs))
                 \o " events. The summary may take a moment to generate.")
       ELSE summary

(***************************************************************************)
(* The histories handed to diffExecutions                                  *)
(***************************************************************************)
MaxSteps == 2      \* the longest timeline
MaxSignals == 2    \* the most signals a history has received

\* All sequences over S of length 0..n.
SeqsUpTo(S, n) == UNION {[1..k -> S] : k \in 0..n}

ActivityNames == {"Charge", "Notify", "Refund"}
SignalNames == {"approve", "cancel"}

\* A timeline step as buildTimeline makes it at standard fidelity, but for its
\* ordinal, which its place in the timeline gives it.
StepBody(activity, status, retries, input, output) ==
    LET base == [activity |-> activity, status |-> status, duration_ms |-> Null,
                 input |-> input, output |-> output]
    IN IF retries > 0 THEN [f \in DOMAIN base \cup {"retries"} |->
                               IF f = "retries" THEN retries ELSE base[f]]
       ELSE base

WithStep(body, n) ==
    [f \in DOMAIN body \cup {"step"} |-> IF f = "step" THEN n ELSE body[f]]

Timeline(bodies) == [i \in 1..Len(bodies) |-> WithStep(bodies[i], i)]

Signal(name) == [name |-> name, time |-> "", input |-> Null]

History(bodies, signalNames) ==
    [workflow_id |-> "wf", run_id |-> "run", workflow_type |-> "OrderWorkflow",
     status |-> "COMPLETED", timeline |-> Timeline(bodies),
     signals_received |-> [i \in 1..Len(signalNames) |-> Signal(signalNames[i])]]

OrderInput == Obj(<<Entry("orderId", Num(1))>>)

\* Steps that differ in their names alone.
NameBodies == {StepBody(n, "completed", 0, OrderInput, Null) : n \in ActivityNames}

Leaves == {Str("ok"), Str("fail"), Num(1), Null}
Nested == {Obj(<<Entry("code", Num(1))>>), Obj(<<Entry("code", Num(2))>>),
           Obj(<<Entry("code", Num(1)), Entry("msg", Str("a"))>>),
           Obj(<<Entry("code", Num(2)), Entry("msg", Str("b"))>>),
           Arr(<<>>), Arr(<<Num(1)>>), Arr(<<Num(2)>>)}
Outputs ==
    {Null, Obj(<<>>)}
    \cup {Obj(<<Entry("status", v)>>) : v \in Leaves \cup Nested}
    \cup {Obj(<<Entry("status", v), Entry("id", Num(7))>>) : v \in {Str("ok"), Str("fail")}}
    \cup {Obj(<<Entry("id", Num(7)), Entry("status", Str("ok"))>>)}

\* Steps of one activity that differ in their data.
DataBodies ==
    {StepBody("Charge", st, r, OrderInput, o) :
        st \in {"completed", "failed"}, r \in {0, 1}, o \in Outputs}

\* Steps that differ in name and data.
MixedBodies ==
    {StepBody(n, st, 0, OrderInput, o) :
        n \in {"Charge", "Notify"}, st \in {"completed", "failed"},
        o \in {Obj(<<Entry("status", Str("ok"))>>),
               Obj(<<Entry("status", Obj(<<Entry("code", Num(1))>>))>>)}}

NotifyBody == StepBody("Notify", "completed", 0, OrderInput, Null)

\* Two histories whose timelines differ in the order and presence of steps.
StructuralInputs(hA, hB) ==
    \E a \in SeqsUpTo(NameBodies, MaxSteps), b \in SeqsUpTo(NameBodies, MaxSteps) :
        hA = History(a, <<>>) /\ hB = History(b, <<>>)

\* Two histories whose last steps are the same activity, with any data.
DataInputs(hA, hB) ==
    \E a \in DataBodies, b \in DataBodies, ctx \in SeqsUpTo({NotifyBody}, MaxSteps - 1) :
        hA = History(ctx \o <<a>>, <<>>) /\ hB = History(ctx \o <<b>>, <<>>)

\* Two histories that received different signals.
SignalInputs(hA, hB) ==
    \E sa \in SeqsUpTo(SignalNames, MaxSignals), sb \in SeqsUpTo(SignalNames, MaxSignals) :
        hA = History(<<>>, sa) /\ hB = History(<<>>, sb)

\* A history and itself.
SameInputs(hA, hB) ==
    \E a \in SeqsUpTo(MixedBodies, MaxSteps), sg \in SeqsUpTo(SignalNames, MaxSignals) :
        hA = History(a, sg) /\ hB = History(a, sg)

(***************************************************************************)
(* compare_executions' use of the diff engine                              *)
(***************************************************************************)
InitDiff ==
    /\ mode = "diff"
    /\ pc = "start"
    /\ \/ StructuralInputs(historyA, historyB)
       \/ DataInputs(historyA, historyB)
       \/ SignalInputs(historyA, historyB)
       \/ SameInputs(historyA, historyB)
    /\ report = Idle
    /\ DecodeUnused
    /\ EventsUnused
    /\ ToolsUnused

\* const diff = diffExecutions(historyA, historyB)
DiffCall ==
    /\ mode = "diff"
    /\ pc = "start"
    /\ report' = diffExecutions(historyA, historyB)
    /\ pc' = "done"
    /\ UNCHANGED <<mode, historyA, historyB, decodeVars, eventVars, toolVars>>

NextDiff == DiffCall

SpecDiff == InitDiff /\ [][NextDiff]_vars

(***************************************************************************)
(* Claims about the diff engine                                            *)
(***************************************************************************)
DiffDone == mode = "diff" /\ pc = "done"

NamesOf(h) == [i \in 1..Len(h.timeline) |-> h.timeline[i].activity]
Count(s, x) == Cardinality({i \in 1..Len(s) : s[i] = x})
NoDuplicates(s) == \A i, j \in 1..Len(s) : s[i] = s[j] => i = j

\* C1: the diff of a history with itself has no divergences, no activity on one
\* side only, different_execution_order = false and no signal on one side only.
C1_DiffIdentity ==
    (DiffDone /\ historyA = historyB) =>
        /\ report.divergences = <<>>
        /\ report.structural_differences.activities_only_in_a = <<>>
        /\ report.structural_differences.activities_only_in_b = <<>>
        /\ report.structural_differences.different_execution_order = FALSE
        /\ report.signals.signals_only_in_a = <<>>
        /\ report.signals.signals_only_in_b = <<>>

\* C1's case: a history with a repeated activity name whose two steps carry
\* different data, and with signals, has been compared with itself.
C1_Witness ==
    /\ DiffDone
    /\ historyA = historyB
    /\ Len(historyA.timeline) >= 2
    /\ historyA.timeline[1].activity = historyA.timeline[2].activity
    /\ historyA.timeline[1].output # historyA.timeline[2].output
    /\ historyA.signals_received # <<>>
    /\ report.divergences = <<>>

\* C6: the same names the same number of times in another sequence give
\* different_execution_order = true and nothing on one side only; the same
\* sequence of names gives false.
C6_DifferentOrder ==
    DiffDone =>
        /\ ((\A n \in ActivityNames : Count(NamesOf(historyA), n) = Count(NamesOf(historyB), n))
              /\ NamesOf(historyA) # NamesOf(historyB))
            => /\ report.structural_differences.different_execution_order = TRUE
               /\ report.structural_differences.activities_only_in_a = <<>>
               /\ report.structural_differences.activities_only_in_b = <<>>
        /\ NamesOf(historyA) = NamesOf(historyB)
            => report.structural_differences.different_execution_order = FALSE

\* C6's case: A = [Charge, Notify] and B = [Notify, Charge] have been compared.
C6_Witness ==
    /\ DiffDone
    /\ NamesOf(historyA) = <<"Charge", "Notify">>
    /\ NamesOf(historyB) = <<"Notify", "Charge">>
    /\ report.structural_differences.different_execution_order = TRUE

\* C7: activities_only_in_a lists, once each, exactly the names of A's timeline
\* that no step of B's timeline has, and activities_only_in_b the same for B.
C7_OnlyIn ==
    DiffDone =>
        /\ Range(report.structural_differences.activities_only_in_a)
              = Range(NamesOf(historyA)) \ Range(NamesOf(historyB))
        /\ NoDuplicates(report.structural_differences.activities_only_in_a)
        /\ Range(report.structural_differences.activities_only_in_b)
              = Range(NamesOf(historyB)) \ Range(NamesOf(historyA))
        /\ NoDuplicates(report.structural_differences.activities_only_in_b)

\* C7's case: Refund runs twice in A and never in B.
C7_Witness ==
    /\ DiffDone
    /\ NamesOf(historyA) = <<"Refund", "Refund">>
    /\ "Refund" \notin Range(NamesOf(historyB))
    /\ NamesOf(historyB) # <<>>
    /\ report.structural_differences.activities_only_in_a = <<"Refund">>

\* The matched pairs of the two timelines whose steps agree on input, status
\* and retry count and whose outputs are plain objects with the same keys that
\* differ in the value of key k alone.
OneKeyApart(pair, k) ==
    /\ pair.a # Null /\ pair.b # Null
    /\ pair.a.input = pair.b.input
    /\ pair.a.status = pair.b.status
    /\ RetriesOrZero(pair.a) = RetriesOrZero(pair.b)
    /\ IsPlainObject(pair.a.output) /\ IsPlainObject(pair.b.output)
    /\ Range(Keys(pair.a.output)) = Range(Keys(pair.b.output))
    /\ k \in Range(Keys(pair.a.output))
    /\ \A key \in Range(Keys(pair.a.output)) :
          (GetKey(pair.a.output, key) # GetKey(pair.b.output, key)) <=> (key = k)

EntriesOfStep(n) == SelectSeq(report.divergences, LAMBDA d : d.step = n)

OneEntryAt(pair, k) ==
    /\ Len(EntriesOfStep(pair.a.step)) = 1
    /\ EntriesOfStep(pair.a.step)[1].field = "output." \o k
    /\ EntriesOfStep(pair.a.step)[1].value_a = GetKey(pair.a.output, k)
    /\ EntriesOfStep(pair.a.step)[1].value_b = GetKey(pair.b.output, k)

MatchedPairs == Range(alignTimelines(historyA.timeline, historyB.timeline))
OutputKeys == {"status", "id", "code", "msg"}

\* Whether deepDiff goes into the two values rather than reporting them.
BothObjectsOrBothArrays(x, y) ==
    \/ IsPlainObject(x) /\ IsPlainObject(y)
    \/ IsArray(x) /\ IsArray(y)

\* C8 as stated: a matched pair whose outputs are plain objects differing in
\* the value of one key k has exactly one divergence, at output.k, with the
\* two values of k.
C8_AsStated ==
    DiffDone =>
        \A pair \in MatchedPairs : \A k \in OutputKeys :
            OneKeyApart(pair, k) => OneEntryAt(pair, k)

\* C8, amended: the same, when the two values of k are not both plain objects
\* and not both lists (deepDiff goes into those and reports their members).
C8_OneDivergence ==
    DiffDone =>
        \A pair \in MatchedPairs : \A k \in OutputKeys :
            (OneKeyApart(pair, k)
               /\ ~BothObjectsOrBothArrays(GetKey(pair.a.output, k), GetKey(pair.b.output, k)))
            => OneEntryAt(pair, k)

\* C8's case: {status: "ok"} against {status: "fail"} in the second step.
C8_Witness ==
    /\ DiffDone
    /\ Len(historyA.timeline) = 2 /\ Len(historyB.timeline) = 2
    /\ historyA.timeline[2].output = Obj(<<Entry("status", Str("ok"))>>)
    /\ historyB.timeline[2].output = Obj(<<Entry("status", Str("fail"))>>)
    /\ OneKeyApart(AlignedPair(historyA.timeline[2], historyB.timeline[2]), "status")
    /\ Len(report.divergences) = 1
    /\ report.divergences[1].field = "output.status"
    /\ report.divergences[1].value_a = Str("ok")
    /\ report.divergences[1].value_b = Str("fail")

\* The pairs alignTimelines makes of the two timelines compared.
Pairs == alignTimelines(historyA.timeline, historyB.timeline)

\* The place of step i among the steps of its timeline that have its name.
RankOf(timeline, i) ==
    Cardinality({j \in 1..i : timeline[j].activity = timeline[i].activity})

\* The k-th step of the timeline with the name; 0 when it has fewer.
KthOf(timeline, name, k) ==
    LET hits == {i \in 1..Len(timeline) :
                    timeline[i].activity = name /\ RankOf(timeline, i) = k}
    IN IF hits = {} THEN 0 ELSE CHOOSE i \in hits : TRUE

\* The steps of B that no step of A is paired with, in B's order.
UnmatchedOfB ==
    SelectSeq(historyB.timeline,
              LAMBDA step : KthOf(historyA.timeline, step.activity,
                                  RankOf(historyB.timeline, step.step)) = 0)

\* C23: every step of A is in exactly one pair and every step of B is in
\* exactly one pair; a pair of two steps has one activity name; the k-th step
\* of A with a name is paired with the k-th step of B with that name, and
\* with null when B has none; the steps of B left over follow the pairs of
\* A, each paired with null, in B's order.
C23_Alignment ==
    DiffDone =>
        LET A == historyA.timeline
            B == historyB.timeline
        IN /\ \A i \in 1..Len(A) : Cardinality({p \in 1..Len(Pairs) : Pairs[p].a = A[i]}) = 1
           /\ \A i \in 1..Len(B) : Cardinality({p \in 1..Len(Pairs) : Pairs[p].b = B[i]}) = 1
           /\ \A p \in 1..Len(Pairs) :
                (Pairs[p].a # Null /\ Pairs[p].b # Null)
                => Pairs[p].a.activity = Pairs[p].b.activity
           /\ \A i \in 1..Len(A) :
                LET k == KthOf(B, A[i].activity, RankOf(A, i))
                IN Pairs[i] = AlignedPair(A[i], IF k = 0 THEN Null ELSE B[k])
           /\ Len(Pairs) = Len(A) + Len(UnmatchedOfB)
           /\ \A n \in 1..Len(UnmatchedOfB) :
                Pairs[Len(A) + n] = AlignedPair(Null, UnmatchedOfB[n])

\* A = [Charge, Notify] and B = [Refund, Charge] have been compared: Charge
\* is paired with Charge, Notify with null, and Refund follows with null.
C23_Witness ==
    /\ DiffDone
    /\ NamesOf(historyA) = <<"Charge", "Notify">>
    /\ NamesOf(historyB) = <<"Refund", "Charge">>
    /\ Len(Pairs) = 3
    /\ Pairs[1] = AlignedPair(historyA.timeline[1], historyB.timeline[2])
    /\ Pairs[2] = AlignedPair(historyA.timeline[2], Null)
    /\ Pairs[3] = AlignedPair(Null, historyB.timeline[1])

\* Structural equality of two JSON values: the same primitive; objects with
\* the same keys and equal values per key; lists of the same length with
\* equal elements per index.
RECURSIVE StructurallyEqual(_, _)
StructurallyEqual(x, y) ==
    IF IsPlainObject(x) /\ IsPlainObject(y)
    THEN /\ Range(Keys(x)) = Range(Keys(y))
         /\ \A k \in Range(Keys(x)) : StructurallyEqual(GetKey(x, k), GetKey(y, k))
    ELSE IF IsArray(x) /\ IsArray(y)
    THEN /\ Len(x.e) = Len(y.e)
         /\ \A i \in 1..Len(x.e) : StructurallyEqual(x.e[i], y.e[i])
    ELSE x = y

\* The entries the report has for step n under the field (input or output).
EntriesUnder(n, field) ==
    SelectSeq(report.divergences, LAMBDA d : d.step = n /\ StartsWith(d.field, field))

\* Either is an object and the other a list, or one has a key or an index
\* the other has not.
OneSided(x, y) ==
    \/ IsPlainObject(x) /\ IsArray(y)
    \/ IsArray(x) /\ IsPlainObject(y)
    \/ IsPlainObject(x) /\ IsPlainObject(y) /\ Range(Keys(x)) # Range(Keys(y))
    \/ IsArray(x) /\ IsArray(y) /\ Len(x.e) # Len(y.e)

\* C26: deepDiff(a, b, path) returns no entry if and only if a and b are
\* structurally equal JSON values; an object against a list, and a key or an
\* index on one side only, yield an entry.  Stated of the inputs and outputs
\* of the matched pairs, whose deepDiff results the report carries.
C26_EmptyIffEqual ==
    DiffDone =>
        \A pair \in MatchedPairs :
            (pair.a # Null /\ pair.b # Null) =>
                /\ (EntriesUnder(pair.a.step, "output") = <<>>)
                      <=> StructurallyEqual(pair.a.output, pair.b.output)
                /\ (EntriesUnder(pair.a.step, "input") = <<>>)
                      <=> StructurallyEqual(pair.a.input, pair.b.input)
                /\ \A k \in OutputKeys :
                      (/\ IsPlainObject(pair.a.output) /\ IsPlainObject(pair.b.output)
                       /\ OneSided(GetKey(pair.a.output, k), GetKey(pair.b.output, k)))
                      => EntriesUnder(pair.a.step, "output." \o k) # <<>>
                /\ OneSided(pair.a.output, pair.b.output)
                      => EntriesUnder(pair.a.step, "output") # <<>>

\* The keys in another order: {status: "ok", id: 7} against {id: 7,
\* status: "ok"} has been compared and no entry made.
KeysInAnotherOrder ==
    /\ DiffDone
    /\ Len(historyA.timeline) = 1 /\ Len(historyB.timeline) = 1
    /\ historyA.timeline[1].output = Obj(<<Entry("status", Str("ok")), Entry("id", Num(7))>>)
    /\ historyB.timeline[1].output = Obj(<<Entry("id", Num(7)), Entry("status", Str("ok"))>>)
    /\ EntriesUnder(1, "output") = <<>>

\* C26's case: a list against an object under one key, {status: [1]} against
\* {status: {code: 1}}, has been compared and one entry made, at the key.
C26_Witness ==
    /\ DiffDone
    /\ Len(historyA.timeline) = 1 /\ Len(historyB.timeline) = 1
    /\ historyA.timeline[1].status = historyB.timeline[1].status
    /\ RetriesOrZero(historyA.timeline[1]) = RetriesOrZero(historyB.timeline[1])
    /\ historyA.timeline[1].output = Obj(<<Entry("status", Arr(<<Num(1)>>))>>)
    /\ historyB.timeline[1].output = Obj(<<Entry("status", Obj(<<Entry("code", Num(1))>>))>>)
    /\ Len(report.divergences) = 1
    /\ report.divergences[1].field = "output.status"

\* A sequence of names with each run of one name brought to one.
Collapsed(names) ==
    SelectSeq([i \in 1..Len(names) |-> IF i > 1 /\ names[i] = names[i - 1] THEN "" ELSE names[i]],
              LAMBDA n : n # "")

\* C29: different_execution_order is false when the two timelines name the
\* same activities in the same order and differ only in how many times an
\* activity is repeated.
C29_AsStated ==
    (DiffDone /\ Collapsed(NamesOf(historyA)) = Collapsed(NamesOf(historyB)))
    => report.structural_differences.different_execution_order = FALSE

\* A = [Charge, Charge] and B = [Charge] have been compared, and the order is
\* reported as different.
C29_Witness ==
    /\ DiffDone
    /\ NamesOf(historyA) = <<"Charge", "Charge">>
    /\ NamesOf(historyB) = <<"Charge">>
    /\ report.structural_differences.different_execution_order = TRUE
    /\ report.structural_differences.activities_only_in_a = <<>>
    /\ report.structural_differences.activities_only_in_b = <<>>

(***************************************************************************)
(* The payloads handed to decodePayload                                    *)
(***************************************************************************)
SampleTexts ==
    {"", "1", "null", "\"ok\"", "{\"status\":\"ok\"}", "{\"status\":", "not json",
     "\"" \o LongString \o "\""}

SampleData ==
    {Utf8(text) : text \in SampleTexts}
    \cup {<<34, 195, 169, 34>>,     \* "é": four bytes, three characters
          <<123, 255, 125>>}        \* a malformed byte between braces

SampleEncodings ==
    {"", "json/plain", "binary/null", "binary/encrypted", "encoding/encrypted",
     "binary/protobuf", "json/protobuf", "json/protobuf; v=2"}

SampleMetadata ==
    {[encoding |-> Utf8(enc)] : enc \in SampleEncodings}
    \cup {[encoding |-> Utf8(enc), messageType |-> Utf8("orders.Order")] :
             enc \in {"json/plain", "binary/protobuf", "json/protobuf"}}
    \cup {[messageType |-> Utf8("orders.Order")]}

SamplePayloads ==
    {Null}
    \cup {[data |-> d] : d \in SampleData}
    \cup {[metadata |-> m] : m \in SampleMetadata}
    \cup {[data |-> d, metadata |-> m] : d \in SampleData, m \in SampleMetadata}

SampleThresholds == {Undefined, Num(0), Num(3), Num(16), Num(LongPayloadBytes)}

(***************************************************************************)
(* A call of decodePayload                                                 *)
(***************************************************************************)
InitDecode ==
    /\ mode = "decode"
    /\ pc = "start"
    /\ payload \in SamplePayloads
    /\ truncateAt \in SampleThresholds
    /\ decoded = Idle
    /\ DiffUnused
    /\ EventsUnused
    /\ ToolsUnused

DecodeCall ==
    /\ mode = "decode"
    /\ pc = "start"
    /\ decoded' = decodePayload(payload, truncateAt)
    /\ pc' = "done"
    /\ UNCHANGED <<mode, payload, truncateAt, diffVars, eventVars, toolVars>>

NextDecode == DecodeCall

SpecDecode == InitDecode /\ [][NextDecode]_vars

(***************************************************************************)
(* Claims about the payload decoder                                        *)
(***************************************************************************)
DecodeDone == mode = "decode" /\ pc = "done"

HasData(p) == p # Null /\ "data" \in DOMAIN p

\* The payloads decodePayload treats as JSON text.
ReachesJson(p) ==
    /\ HasData(p)
    /\ ~IsEncryptedTag(MetadataText(p, "encoding", ""))
    /\ ~IsProtobufTag(MetadataText(p, "encoding", ""))

IsTruncationMarker(v) == IsPlainObject(v) /\ GetKey(v, "_truncated") = Bool(TRUE)

\* C2: decodePayload returns a value for every payload and threshold and never
\* raises; bytes that JSON.parse rejects come back as the decoded text.
C2_DecodeTotal ==
    DecodeDone =>
        /\ decoded # Raise
        /\ (ReachesJson(payload) /\ ~IsTruncationMarker(decoded)
              /\ ParseJSON(TextDecode(payload.data)) = Raise)
           => decoded = Str(TextDecode(payload.data))

\* C2's case: bytes that are no JSON text have been decoded to their text.
C2_Witness ==
    /\ DecodeDone
    /\ HasData(payload)
    /\ payload.data = <<123, 255, 125>>
    /\ decoded = Str("{" \o ReplacementChar \o "}")

\* What a truncation marker carries: the byte count, and the first
\* PreviewChars characters of the decoded text.
MarkerCarries(v, p) ==
    /\ GetKey(v, "fullSizeBytes") = Num(Len(p.data))
    /\ IsString(GetKey(v, "preview"))
    /\ Len(GetKey(v, "preview").v) <= PreviewChars
    /\ Len(GetKey(v, "preview").v) <= Len(TextDecode(p.data))
    /\ GetKey(v, "preview").v = SubSeq(TextDecode(p.data), 1, Len(GetKey(v, "preview").v))
    /\ Len(GetKey(v, "preview").v) = PreviewChars
          \/ GetKey(v, "preview").v = TextDecode(p.data)

\* C3 as stated: a truncation marker is returned exactly when a threshold is
\* supplied and the payload's byte length exceeds it.
C3_AsStated ==
    DecodeDone =>
        (IsTruncationMarker(decoded)
            <=> (truncateAt # Undefined /\ HasData(payload)
                   /\ Len(payload.data) > truncateAt.n))

\* C3, as decodePayload has it: for a payload that has data and whose encoding
\* tag is neither encrypted nor protobuf, a truncation marker is returned
\* exactly when a threshold other than 0 is supplied and the byte length
\* exceeds it; for any other payload none is returned.  The marker carries
\* the byte count and the first 500 characters of the decoded text.
C3_Truncation ==
    DecodeDone =>
        /\ IsTruncationMarker(decoded)
              <=> (/\ ReachesJson(payload)
                   /\ truncateAt # Undefined
                   /\ truncateAt.n # 0
                   /\ Len(payload.data) > truncateAt.n)
        /\ IsTruncationMarker(decoded) => MarkerCarries(decoded, payload)

\* C3's case: a payload longer than the preview has been truncated.
C3_Witness ==
    /\ DecodeDone
    /\ IsTruncationMarker(decoded)
    /\ Len(TextDecode(payload.data)) > PreviewChars
    /\ Len(GetKey(decoded, "preview").v) = PreviewChars
    /\ GetKey(decoded, "fullSizeBytes") = Num(LongPayloadBytes)

\* The payloads C24 sends to null: none, one without data, one of no bytes.
NullOrEmpty(p) == ~HasData(p) \/ p.data = <<>>

\* C24 as stated: a null or absent payload, or one whose data is empty,
\* yields null; otherwise an encrypted tag yields the encrypted marker;
\* otherwise a protobuf tag yields the protobuf marker with the declared
\* message type; only otherwise are the bytes read as JSON.
C24_AsStated ==
    DecodeDone =>
        IF NullOrEmpty(payload) THEN decoded = Null
        ELSE IF IsEncryptedTag(MetadataText(payload, "encoding", ""))
        THEN decoded = EncryptedMarker
        ELSE IF IsProtobufTag(MetadataText(payload, "encoding", ""))
        THEN decoded = ProtobufMarker(MetadataText(payload, "messageType", "unknown"))
        ELSE decoded = TryCatch(JsonBranch(payload, truncateAt),
                                Str(TextDecode(payload.data)))

\* A payload of no bytes tagged binary/null has been decoded, and the result
\* is the empty string.
C24_Witness ==
    /\ DecodeDone
    /\ HasData(payload)
    /\ payload.data = <<>>
    /\ "metadata" \in DOMAIN payload
    /\ MetadataText(payload, "encoding", "") = "binary/null"
    /\ decoded = Str("")

(***************************************************************************)
(* The events handed to groupActivityEvents                                *)
(*                                                                         *)
(* The server numbers the events of a history 1, 2, 3, ... in order, so   *)
(* the event at position i has eventId i.  A back-reference may name an   *)
(* earlier event, a later one, itself, or nothing.                         *)
(***************************************************************************)
MaxEvents == 3

HistoryEvent(id, type) == [eventId |-> id, eventType |-> type]
WithAttrs(event, attrs) ==
    [f \in DOMAIN event \cup {"attrs"} |-> IF f = "attrs" THEN attrs ELSE event[f]]

ActivityTaskScheduled(id, activityId, name) ==
    WithAttrs(HistoryEvent(id, 10), [activityId |-> activityId, activityType |-> [name |-> name]])

BackReference(id, type, scheduledEventId) ==
    WithAttrs(HistoryEvent(id, type), [scheduledEventId |-> scheduledEventId])

\* The events that can stand at position id of a log of activity events.
ActivityEventsAt(id) ==
    {ActivityTaskScheduled(id, "1", "Charge"), ActivityTaskScheduled(id, "2", "Notify"),
     ActivityTaskScheduled(id, "1", "Notify"),
     WithAttrs(HistoryEvent(id, 10), [activityType |-> [name |-> "Charge"]]),
     BackReference(id, 11, 1), BackReference(id, 11, 2),
     BackReference(id, 12, 1), BackReference(id, 12, 2), HistoryEvent(id, 12),
     BackReference(id, 13, 1), BackReference(id, 14, 2), BackReference(id, 16, 1),
     HistoryEvent(id, 5)}

InitGroup ==
    /\ mode = "group"
    /\ pc = "loop"
    /\ events = <<>>
    /\ groups = <<>>
    /\ SummaryUnused
    /\ DiffUnused
    /\ DecodeUnused
    /\ ToolsUnused

\* The loop of groupActivityEvents takes the next event of the history.
GroupEvent ==
    /\ mode = "group"
    /\ Len(events) < MaxEvents
    /\ \E event \in ActivityEventsAt(Len(events) + 1) :
          /\ events' = Append(events, event)
          /\ groups' = GroupStep(groups, event)
    /\ UNCHANGED <<mode, pc, options, history, history2, diffVars, decodeVars, toolVars>>

NextGroup == GroupEvent

SpecGroup == InitGroup /\ [][NextGroup]_vars

(***************************************************************************)
(* The histories handed to summarizeHistory                                *)
(*                                                                         *)
(* As the server records them: the event at position i has eventId i and  *)
(* a time that grows with i, every scheduled activity has an activityId,  *)
(* a WorkflowExecutionStarted event stands first if it is there at all,   *)
(* and a back-reference names an earlier event.                            *)
(***************************************************************************)
JsonPayload(text) == [metadata |-> [encoding |-> Utf8("json/plain")], data |-> Utf8(text)]

OrderPayload == JsonPayload("{\"orderId\":1}")
StatusPayload == JsonPayload("{\"status\":\"ok\"}")
TextPayload == JsonPayload("not json")
OkPayload == JsonPayload("\"ok\"")

TimeAt(id) == [seconds |-> 10 * id, nanos |-> (id % 4) * 250000000]

Event(id, type, attrs) ==
    [eventId |-> id, eventType |-> type, eventTime |-> TimeAt(id), attrs |-> attrs]

WorkflowTaskScheduled(id) == [eventId |-> id, eventType |-> 5, eventTime |-> TimeAt(id)]

WorkflowExecutionStarted(id) ==
    Event(id, 1, [workflowType |-> [name |-> "OrderWorkflow"],
                  taskQueue |-> [name |-> "orders"], input |-> <<OrderPayload>>])

\* The events that can stand at position id of a history.
SummaryEventsAt(id) ==
    {Event(id, 10, [activityId |-> "1", activityType |-> [name |-> "Charge"],
                    input |-> <<OrderPayload>>]),
     Event(id, 10, [activityId |-> "2", activityType |-> [name |-> "Notify"]]),
     WorkflowTaskScheduled(id),
     Event(id, 2, [result |-> <<OkPayload>>])}
    \cup (IF id = 1 THEN {WorkflowExecutionStarted(id)} ELSE {})
    \cup (IF id > 1
          THEN {Event(id, 11, [scheduledEventId |-> 1, attempt |-> 2]),
                Event(id, 12, [scheduledEventId |-> 1, result |-> <<StatusPayload>>]),
                Event(id, 13, [scheduledEventId |-> 1, failure |-> [message |-> "boom"]])}
          ELSE {})
    \cup (IF id > 2
          THEN {Event(id, 11, [scheduledEventId |-> 2]),
                Event(id, 12, [scheduledEventId |-> 2, result |-> <<TextPayload>>])}
          ELSE {})

\* The histories of n events.
RECURSIVE HistoriesOf(_)
HistoriesOf(n) ==
    IF n = 0 THEN {<<>>}
    ELSE {Append(h, e) : h \in HistoriesOf(n - 1), e \in SummaryEventsAt(n)}

ActivityHistories == UNION {HistoriesOf(n) : n \in 0..MaxEvents}

\* Histories with signals, timers, child workflows and each way of closing.
WorkflowHistories ==
    {<<WorkflowExecutionStarted(1),
       Event(2, 26, [signalName |-> "approve", input |-> <<OkPayload>>]),
       Event(3, 17, [timerId |-> "t1", startToFireTimeout |-> [seconds |-> 90]]),
       Event(4, 18, [timerId |-> "t1", startedEventId |-> 3]),
       Event(5, 3, [failure |-> [message |-> "boom", type |-> "Error",
                                 cause |-> [source |-> "JavaSDK"]]])>>,
     <<WorkflowExecutionStarted(1),
       Event(2, 29, [workflowId |-> "c1", workflowType |-> [name |-> "Ship"]]),
       Event(3, 31, [workflowExecution |-> [workflowId |-> "c1"]]),
       Event(4, 32, [workflowExecution |-> [workflowId |-> "c1"]]),
       WorkflowTaskScheduled(5),
       [eventId |-> 6, eventType |-> 4, eventTime |-> TimeAt(6)]>>,
     <<Event(1, 10, [activityId |-> "1", activityType |-> [name |-> "Charge"]]),
       Event(2, 14, [scheduledEventId |-> 1]),
       Event(3, 10, [activityId |-> "2", activityType |-> [name |-> "Notify"]]),
       Event(4, 16, [scheduledEventId |-> 3]),
       [eventId |-> 5, eventType |-> 27, eventTime |-> TimeAt(5)]>>,
     <<WorkflowExecutionStarted(1),
       [eventId |-> 2, eventType |-> 99, eventTime |-> TimeAt(2)],
       [eventId |-> 3, eventType |-> 21, eventTime |-> TimeAt(3)]>>}

\* A history brought to n events by the workflow tasks of a long run.
PaddedTo(h, n) ==
    [i \in 1..n |-> IF i <= Len(h) THEN h[i] ELSE WorkflowTaskScheduled(i)]

LargeHistories ==
    {PaddedTo(h, n) :
        h \in {<<WorkflowExecutionStarted(1),
                 Event(2, 10, [activityId |-> "1", activityType |-> [name |-> "Charge"],
                               input |-> <<OrderPayload>>]),
                 Event(3, 12, [scheduledEventId |-> 2, result |-> <<StatusPayload>>])>>},
        n \in {LargeHistoryEvents, LargeHistoryEvents + 1}}

\* The events that close a workflow, by event type number.
ClosingEvent(id, type) ==
    IF type = 2 THEN Event(id, 2, [result |-> <<StatusPayload>>])
    ELSE IF type = 3 THEN Event(id, 3, [failure |-> [message |-> "boom"]])
    ELSE [eventId |-> id, eventType |-> type, eventTime |-> TimeAt(id)]

\* Histories that hold two closing events, of every two kinds in either order.
ClosedTwiceHistories ==
    {<<WorkflowExecutionStarted(1), ClosingEvent(2, a), ClosingEvent(3, b)>> :
        a \in {2, 3, 4, 21, 27}, b \in {2, 3, 4, 21, 27}}

\* Histories of one activity and two later events of it: started, completed,
\* failed, timed out or canceled, of every two kinds in either order.
ActivityOutcome(id, type) ==
    IF type = 12 THEN Event(id, 12, [scheduledEventId |-> 1, result |-> <<StatusPayload>>])
    ELSE IF type = 13 THEN Event(id, 13, [scheduledEventId |-> 1, failure |-> [message |-> "boom"]])
    ELSE Event(id, type, [scheduledEventId |-> 1])

ActivityOutcomeHistories ==
    {<<Event(1, 10, [activityId |-> "1", activityType |-> [name |-> "Charge"],
                     input |-> <<OrderPayload>>]),
       ActivityOutcome(2, a), ActivityOutcome(3, b)>> :
        a \in {11, 12, 13, 14, 16}, b \in {11, 12, 13, 14, 16}}

TimerStarted(id, timerId, seconds) ==
    Event(id, 17, [timerId |-> timerId, startToFireTimeout |-> [seconds |-> seconds]])
TimerFired(id, timerId) == Event(id, 18, [timerId |-> timerId])

\* Histories of timers: an id started again after it fired, two timers
\* firing in the other order, a timer that never fires, and an id started
\* twice before it fires.
TimersOf(a, b) ==
    {<<TimerStarted(1, "t1", a), TimerFired(2, "t1"),
       TimerStarted(3, "t1", b), TimerFired(4, "t1")>>,
     <<TimerStarted(1, "t1", a), TimerStarted(2, "t2", b),
       TimerFired(3, "t2"), TimerFired(4, "t1")>>,
     <<TimerStarted(1, "t1", a), TimerStarted(2, "t2", b), TimerFired(3, "t1")>>,
     <<TimerStarted(1, "t1", a), TimerStarted(2, "t1", b), TimerFired(3, "t1")>>}

TimerHistories ==
    UNION {TimersOf(a, b) : a \in {5, 90, 3600}, b \in {5, 90, 3600}}

\* The events of child workflows c1 and c2 that can stand at position id:
\* c1 initiated as a Ship or as a Bill workflow, c2 initiated, c1 started,
\* completed or failed, c2 started.
ChildEventsAt(id) ==
    {Event(id, 29, [workflowId |-> "c1", workflowType |-> [name |-> "Ship"]]),
     Event(id, 29, [workflowId |-> "c1", workflowType |-> [name |-> "Bill"]]),
     Event(id, 29, [workflowId |-> "c2", workflowType |-> [name |-> "Ship"]]),
     Event(id, 31, [workflowExecution |-> [workflowId |-> "c1"]]),
     Event(id, 32, [workflowExecution |-> [workflowId |-> "c1"]]),
     Event(id, 33, [workflowExecution |-> [workflowId |-> "c1"]]),
     Event(id, 31, [workflowExecution |-> [workflowId |-> "c2"]])}

\* Histories of three such events, in every order: an event of a child may
\* stand before the child's initiation, and a child may be initiated again.
ChildHistories ==
    {<<a, b, c>> : a \in ChildEventsAt(1), b \in ChildEventsAt(2), c \in ChildEventsAt(3)}

\* A history whose every payload is a JSON text of one byte more than the
\* truncation threshold.
LargePayloadHistories ==
    {<<Event(1, 1, [workflowType |-> [name |-> "OrderWorkflow"], input |-> <<big>>]),
       Event(2, 26, [signalName |-> "approve", input |-> <<big>>]),
       Event(3, 10, [activityId |-> "1", activityType |-> [name |-> "Charge"],
                     input |-> <<big>>]),
       Event(4, 12, [scheduledEventId |-> 3, result |-> <<big>>]),
       Event(5, 2, [result |-> <<big>>])>> :
        big \in {[metadata |-> [encoding |-> Utf8("json/plain")], data |-> LargeJsonBytes]}}

ActivityKindsOnly == <<"activitytaskscheduled", "ActivityTaskStarted", "ActivityTaskCompleted">>

SampleOptions ==
    {[detailLevel |-> d] : d \in {"summary", "standard", "full"}}
    \cup {[detailLevel |-> d, eventTypes |-> ActivityKindsOnly] : d \in {"summary", "standard"}}
    \cup {[detailLevel |-> "standard", eventTypes |-> <<"ActivityTaskCompleted">>]}

(***************************************************************************)
(* Two calls of summarizeHistory with the same arguments                   *)
(***************************************************************************)
\* The options that name a fidelity and no allow-list.
PlainOptions == {[detailLevel |-> d] : d \in {"summary", "standard"}}

\* Allow-lists that admit no event, and none of an activity.
NarrowOptions ==
    {[detailLevel |-> d, eventTypes |-> types] :
        d \in {"summary", "standard"},
        types \in {<<>>, <<"workflowexecutionstarted", "TimerFired">>}}

InitSummarize ==
    /\ mode = "summarize"
    /\ pc = "start"
    /\ \/ /\ events \in ActivityHistories \cup WorkflowHistories \cup LargeHistories
                          \cup LargePayloadHistories \cup ClosedTwiceHistories
                          \cup ActivityOutcomeHistories \cup TimerHistories
          /\ options \in SampleOptions
       \/ /\ events \in WorkflowHistories \cup ClosedTwiceHistories
                          \cup ActivityOutcomeHistories
          /\ options \in NarrowOptions
       \/ /\ events \in ChildHistories
          /\ options \in PlainOptions
    /\ groups = Idle
    /\ history = Idle
    /\ history2 = Idle
    /\ DiffUnused
    /\ DecodeUnused
    /\ ToolsUnused

SummarizeCall ==
    /\ mode = "summarize"
    /\ pc = "start"
    /\ history' = summarizeHistory("wf-1", "run-1", events, options)
    /\ events' = EventsAfterCall(events, options)
    /\ pc' = "once"
    /\ UNCHANGED <<mode, groups, options, history2, diffVars, decodeVars, toolVars>>

SummarizeAgain ==
    /\ mode = "summarize"
    /\ pc = "once"
    /\ history2' = summarizeHistory("wf-1", "run-1", events, options)
    /\ events' = EventsAfterCall(events, options)
    /\ pc' = "twice"
    /\ UNCHANGED <<mode, groups, options, history, diffVars, decodeVars, toolVars>>

NextSummarize == SummarizeCall \/ SummarizeAgain

SpecSummarize == InitSummarize /\ [][NextSummarize]_vars

(***************************************************************************)
(* Temporal client                                                         *)
(*                                                                         *)
(* A Connection is known by its place in the list of connections opened;  *)
(* connectionInstance is that number, or 0 for null.  A Client is the     *)
(* connection it uses and its namespace.  activeConfig holds what         *)
(* getConfig returns: the configuration set by connectToServer, or the    *)
(* environment's.                                                          *)
(***************************************************************************)
MaxCalls == 2

\* s.includes(part)
Includes(s, part) ==
    \E k \in 1..(Len(s) - Len(part) + 1) : SubSeq(s, k, k + Len(part) - 1) = part

EnvironmentConfigs ==
    {[address |-> "localhost:7233", namespace |-> "default"],
     [address |-> "localhost:7233", namespace |-> "default", apiKey |-> "key"]}

\* namespace || config.namespace
EffectiveNamespace(namespace) ==
    IF namespace = Undefined \/ namespace.v = "" THEN activeConfig.namespace ELSE namespace.v

\* What getTemporalClient does before its first wait, for a namespace: return
\* the cached client; open a connection of its own for the namespace; make a
\* client on the shared connection; or open the shared connection first.
ClientPath(ns) ==
    IF ns \in DOMAIN clientCache THEN "cached"
    ELSE IF "apiKey" \in DOMAIN activeConfig /\ ns # activeConfig.namespace
            /\ connectionInstance # 0
    THEN "own"
    ELSE IF connectionInstance # 0 THEN "reuse"
    ELSE "shared"

Client(connection, ns) == [connection |-> connection, namespace |-> ns]

\* The temporal-namespace header a connection is opened with, "" for none.
NamespaceHeader(path, ns) ==
    IF path = "own" THEN ns
    ELSE IF "apiKey" \in DOMAIN activeConfig THEN activeConfig.namespace
    ELSE ""

CannotConnect(details) ==
    "Cannot connect to Temporal server at " \o activeConfig.address
    \o ". Verify TEMPORAL_ADDRESS is correct and the server is running. Details: "
    \o details

(***************************************************************************)
(* Tools                                                                   *)
(*                                                                         *)
(* A task is one call of a tool's body that waits on the server: pc is    *)
(* where it waits ("connect", "fetch", "describe", "request") or how it   *)
(* ended ("fulfilled", "rejected").                                        *)
(***************************************************************************)
HistoryTools == {"get_workflow_history", "compare_executions"}
RequestTools ==
    {"list_workflows", "get_workflow_stack_trace", "describe_task_queue",
     "search_workflow_data"}

\* input.f as a string value; undefined when absent.
InputText(input, f) == IF f \in DOMAIN input THEN Str(input[f]) ELSE Undefined

\* The argument each tool hands to getTemporalClient.
NamespaceArgument(tool, input) ==
    IF tool \in RequestTools THEN InputText(input, "namespace") ELSE Undefined

NoWorkflowFound(workflowId) ==
    "No workflow found with ID '" \o workflowId
    \o "'. The workflow may have been archived or the ID may be incorrect."

PermissionDenied ==
    "Permission denied. The configured credentials don't have read access to this namespace."

\* The catch block of getWorkflowHistory: the error it throws for a message.
CatchHistoryError(workflowId, message) ==
    IF Includes(message, "not found") \/ Includes(message, "NotFound")
    THEN NoWorkflowFound(workflowId)
    ELSE IF Includes(message, "permission") \/ Includes(message, "Unauthorized")
    THEN PermissionDenied
    ELSE "Failed to get workflow history: " \o message

\* The options getWorkflowHistory hands to summarizeHistory.
SummarizeOptions(input) ==
    LET level == [detailLevel |-> IF "detail_level" \in DOMAIN input
                                  THEN input.detail_level ELSE "summary"]
    IN IF "event_types" \in DOMAIN input
       THEN With(level, "eventTypes", input.event_types)
       ELSE level

\* The first wait of a task's body, after it has got its client;
\* connectToServer has none and returns.
FirstWait(tool) ==
    IF tool \in HistoryTools THEN "fetch"
    ELSE IF tool = "temporal_connection" THEN "fulfilled"
    ELSE "request"

\* A task as it stands when the call that started it yields: it has looked up
\* the cache and the shared connection, and waits for a connection or for the
\* server.
NewTask(tool, input) ==
    LET ns == EffectiveNamespace(NamespaceArgument(tool, input))
        path == ClientPath(ns)
    IN [tool |-> tool, input |-> input, namespace |-> ns, path |-> path,
        pc |-> IF path \in {"cached", "reuse"} THEN FirstWait(tool) ELSE "connect",
        client |-> IF path = "cached" THEN clientCache[ns]
                   ELSE IF path = "reuse" THEN Client(connectionInstance, ns)
                   ELSE Idle,
        fetched |-> Idle, value |-> Idle, error |-> ""]

\* clientCache.set for the tasks that made a client on the shared connection.
RECURSIVE CacheAfter(_, _, _)
CacheAfter(cache, ts, k) ==
    IF k > Len(ts) THEN cache
    ELSE CacheAfter(IF ts[k].path = "reuse"
                    THEN With(cache, ts[k].namespace, ts[k].client) ELSE cache,
                    ts, k + 1)

\* The tasks a tool call starts: compareExecutions calls getWorkflowHistory
\* for each execution, at standard detail; every other tool is one task.
TasksOf(call) ==
    IF call.tool = "compare_executions"
    THEN <<NewTask(call.tool, [workflow_id |-> call.input.workflow_id_a,
                               detail_level |-> "standard"]),
           NewTask(call.tool, [workflow_id |-> call.input.workflow_id_b,
                               detail_level |-> "standard"])>>
    ELSE <<NewTask(call.tool, call.input)>>

Settled(ts) == \A k \in 1..Len(ts) : ts[k].pc \in {"fulfilled", "rejected"}
Fulfilled(ts) == \A k \in 1..Len(ts) : ts[k].pc = "fulfilled"

\* What compareExecutions returns for two histories and their diff.
CompareOutput(hA, hB, diff) ==
    [execution_a |-> [workflow_id |-> hA.workflow_id, status |-> hA.status,
                      workflow_type |-> hA.workflow_type],
     execution_b |-> [workflow_id |-> hB.workflow_id, status |-> hB.status,
                      workflow_type |-> hB.workflow_type],
     same_workflow_type |-> hA.workflow_type = hB.workflow_type,
     diff |-> diff]

\* What the call returns when a task is rejected: the error, thrown on.
Rejection_PartialReport(message) == [value |-> [partial |-> message]]

Rejection(message) == [error |-> message]

\* compareExecutions after both histories have arrived: what it returns, with
\* the histories it compared and their diff.
Compared(hA, hB, diff) ==
    [outcome |-> [value |-> CompareOutput(hA, hB, diff)], a |-> hA, b |-> hB, diff |-> diff]

\* What the tool call has returned once its tasks stand as ts, with the
\* histories compared and their diff.  Promise.all rejects with the first
\* rejection and fulfils when every task has; diffExecutions runs only then.
Settle(ts) ==
    LET same == [outcome |-> outcome, a |-> historyA, b |-> historyB, diff |-> report]
    IN IF outcome # Idle THEN same
       ELSE IF \E k \in 1..Len(ts) : ts[k].pc = "rejected"
       THEN [same EXCEPT !.outcome =
                Rejection(ts[CHOOSE k \in 1..Len(ts) : ts[k].pc = "rejected"].error)]
       ELSE IF ~Fulfilled(ts) THEN same
       ELSE IF Len(ts) = 2
       THEN Compared(ts[1].value, ts[2].value, diffExecutions(ts[1].value, ts[2].value))
       ELSE [same EXCEPT !.outcome = [value |-> ts[1].value]]

\* The histories the server holds.
ServerHistories ==
    {<<WorkflowExecutionStarted(1),
       Event(2, 10, [activityId |-> "1", activityType |-> [name |-> "Charge"],
                     input |-> <<OrderPayload>>]),
       Event(3, 12, [scheduledEventId |-> 2, result |-> <<StatusPayload>>]),
       Event(4, 2, [result |-> <<OkPayload>>])>>,
     <<WorkflowExecutionStarted(1),
       Event(2, 10, [activityId |-> "1", activityType |-> [name |-> "Charge"],
                     input |-> <<OrderPayload>>]),
       Event(3, 13, [scheduledEventId |-> 2, failure |-> [message |-> "boom"]]),
       Event(4, 3, [failure |-> [message |-> "boom"]])>>}

\* What handle.fetchHistory() can answer: a history, one with no events, or
\* an error.
FetchResponses ==
    {[events |-> h] : h \in ServerHistories \cup {<<>>}}
    \cup {[error |-> m] : m \in {"workflow not found", "Unauthorized", "deadline exceeded"}}

ToolCalls ==
    {[tool |-> "get_workflow_history", input |-> in] :
        in \in {[workflow_id |-> "order-1"],
                [workflow_id |-> "order-1", namespace |-> "staging"],
                [workflow_id |-> "order-1", run_id |-> "run-1", detail_level |-> "full"],
                [workflow_id |-> "permission-audit", namespace |-> "staging",
                 detail_level |-> "standard", event_types |-> <<"ActivityTaskFailed">>]}}
    \cup {[tool |-> "compare_executions", input |-> in] :
        in \in {[workflow_id_a |-> "order-1", workflow_id_b |-> "order-2"],
                [workflow_id_a |-> "order-1", workflow_id_b |-> "order-2",
                 namespace |-> "staging"]}}
    \cup {[tool |-> t, input |-> in] :
        t \in RequestTools, in \in {[query |-> "q"], [query |-> "q", namespace |-> "staging"]}}

\* What temporal_connection can be asked to connect to.
ConnectInputs ==
    {[action |-> "connect", namespace |-> "staging"],
     [action |-> "connect", address |-> "cloud:7233", api_key |-> "key"]}

\* The configuration temporalConnection makes of its input and the current
\* status.
ConfigOf(input) ==
    LET base == [address |-> IF "address" \in DOMAIN input THEN input.address
                             ELSE activeConfig.address,
                 namespace |-> IF "namespace" \in DOMAIN input THEN input.namespace
                               ELSE activeConfig.namespace]
    IN IF "api_key" \in DOMAIN input THEN With(base, "apiKey", input.api_key) ELSE base

\* getConnectionStatus() under a configuration.
getConnectionStatus(config, instance) ==
    [address |-> config.address, namespace |-> config.namespace,
     authType |-> IF "apiKey" \in DOMAIN config THEN "api_key" ELSE "none",
     connected |-> instance # 0]

\* The connections as closeConnection leaves them: connectionInstance closed.
ClosedConnections ==
    IF connectionInstance # 0
    THEN [connections EXCEPT ![connectionInstance].open = FALSE]
    ELSE connections

\* A connection and a client made on it for the configured namespace.
WarmConnection(config) ==
    [open |-> TRUE,
     header |-> IF "apiKey" \in DOMAIN config THEN config.namespace ELSE ""]

(***************************************************************************)
(* Tool calls, served one after another                                    *)
(***************************************************************************)
InitTools ==
    /\ mode = "tools"
    /\ pc = "serving"
    /\ activeConfig \in EnvironmentConfigs
    /\ \/ /\ clientCache = <<>>
          /\ connectionInstance = 0
          /\ connections = <<>>
       \/ /\ clientCache = With(<<>>, activeConfig.namespace,
                                Client(1, activeConfig.namespace))
          /\ connectionInstance = 1
          /\ connections = <<WarmConnection(activeConfig)>>
    /\ toolCall = Idle
    /\ tasks = <<>>
    /\ requests = <<>>
    /\ outcome = Idle
    /\ served = 0
    /\ DiffUnused
    /\ DecodeUnused
    /\ EventsUnused

\* The tasks move to ts, and the call returns if that settles it.
TasksBecome(ts) ==
    \E settled \in {Settle(ts)} :
       /\ tasks' = ts
       /\ outcome' = settled.outcome
       /\ historyA' = settled.a
       /\ historyB' = settled.b
       /\ report' = settled.diff

\* A tool is called: its tasks run up to their first wait.
ToolCalled ==
    /\ mode = "tools"
    /\ Settled(tasks)
    /\ served < MaxCalls
    /\ \E call \in ToolCalls :
          /\ toolCall' = call
          /\ tasks' = TasksOf(call)
          /\ clientCache' = CacheAfter(clientCache, TasksOf(call), 1)
    /\ served' = served + 1
    /\ requests' = <<>>
    /\ outcome' = Idle
    /\ historyA' = Idle /\ historyB' = Idle /\ report' = Idle
    /\ UNCHANGED <<mode, pc, activeConfig, connectionInstance, connections,
                   decodeVars, eventVars>>

\* temporal_connection is called to connect: connectToServer closes the
\* connection (closeConnection), sets the configuration and asks for the
\* client of its namespace, which waits for Connection.connect.
ConnectCalled ==
    /\ mode = "tools"
    /\ Settled(tasks)
    /\ served < MaxCalls
    /\ \E input \in ConnectInputs :
          /\ toolCall' = [tool |-> "temporal_connection", input |-> input]
          /\ activeConfig' = ConfigOf(input)
          /\ tasks' = <<[tool |-> "temporal_connection", input |-> input,
                         namespace |-> ConfigOf(input).namespace, path |-> "shared",
                         pc |-> "connect", client |-> Idle, fetched |-> Idle,
                         value |-> Idle, error |-> ""]>>
    /\ clientCache' = <<>>
    /\ connections' = ClosedConnections
    /\ connectionInstance' = 0
    /\ served' = served + 1
    /\ requests' = <<>>
    /\ outcome' = Idle
    /\ historyA' = Idle /\ historyB' = Idle /\ report' = Idle
    /\ UNCHANGED <<mode, pc, decodeVars, eventVars>>

\* Connection.connect answers a task: with a connection, which the task
\* stores (the shared one in connectionInstance) and makes its client on, or
\* with an error.
Connected(k) ==
    /\ mode = "tools"
    /\ k \in 1..Len(tasks)
    /\ tasks[k].pc = "connect"
    /\ \/ LET id == Len(connections) + 1
              client == Client(id, tasks[k].namespace)
          IN /\ connections' =
                   Append(connections,
                          [open |-> TRUE,
                           header |-> NamespaceHeader(tasks[k].path, tasks[k].namespace)])
             /\ connectionInstance' =
                   IF tasks[k].path = "shared" THEN id ELSE connectionInstance
             /\ clientCache' = With(clientCache, tasks[k].namespace, client)
             /\ TasksBecome([tasks EXCEPT
                   ![k].client = client,
                   ![k].pc = FirstWait(tasks[k].tool),
                   ![k].value = IF tasks[k].tool = "temporal_connection"
                                THEN getConnectionStatus(activeConfig, id)
                                ELSE tasks[k].value])
       \/ /\ TasksBecome([tasks EXCEPT
                ![k].pc = "rejected",
                ![k].error = IF tasks[k].path = "shared"
                             THEN CannotConnect("connection refused")
                             ELSE "connection refused"])
          /\ UNCHANGED <<connections, connectionInstance, clientCache>>
    /\ UNCHANGED <<mode, pc, activeConfig, toolCall, requests, served,
                   decodeVars, eventVars>>

\* A request made through a task's client.
Request(task, op) ==
    [namespace |-> task.client.namespace, connection |-> task.client.connection, op |-> op,
     workflow_id |-> IF "workflow_id" \in DOMAIN task.input THEN task.input.workflow_id
                     ELSE ""]

\* handle.fetchHistory() answers a task of getWorkflowHistory.
FetchHistory(k) ==
    /\ mode = "tools"
    /\ k \in 1..Len(tasks)
    /\ tasks[k].pc = "fetch"
    /\ requests' = Append(requests, Request(tasks[k], "fetchHistory"))
    /\ \E response \in FetchResponses :
          LET workflowId == tasks[k].input.workflow_id
          IN TasksBecome(
                IF "error" \in DOMAIN response
                THEN [tasks EXCEPT
                        ![k].pc = "rejected",
                        ![k].error = CatchHistoryError(workflowId, response.error)]
                ELSE IF Len(response.events) = 0
                THEN [tasks EXCEPT
                        ![k].pc = "rejected",
                        ![k].fetched = [events |-> response.events],
                        ![k].error = CatchHistoryError(workflowId,
                                                       NoWorkflowFound(workflowId))]
                ELSE [tasks EXCEPT ![k].pc = "describe",
                                   ![k].fetched = [events |-> response.events]])
    /\ UNCHANGED <<mode, pc, clientVars, toolCall, served, decodeVars, eventVars>>

\* handle.describe() answers a task of getWorkflowHistory, which summarizes
\* the history it fetched.
Describe(k) ==
    /\ mode = "tools"
    /\ k \in 1..Len(tasks)
    /\ tasks[k].pc = "describe"
    /\ requests' = Append(requests, Request(tasks[k], "describe"))
    /\ \/ LET input == tasks[k].input
              runId == IF "run_id" \in DOMAIN input /\ input.run_id # ""
                       THEN input.run_id ELSE "run-latest"
          IN \E summary \in {summarizeHistory(input.workflow_id, runId,
                                               tasks[k].fetched.events,
                                               SummarizeOptions(input))} :
                TasksBecome([tasks EXCEPT ![k].pc = "fulfilled", ![k].value = summary])
       \/ TasksBecome([tasks EXCEPT
             ![k].pc = "rejected",
             ![k].error = CatchHistoryError(tasks[k].input.workflow_id,
                                            "deadline exceeded")])
    /\ UNCHANGED <<mode, pc, clientVars, toolCall, served, decodeVars, eventVars>>

\* The server answers the request of one of the other tools.
ServerAnswered(k) ==
    /\ mode = "tools"
    /\ k \in 1..Len(tasks)
    /\ tasks[k].pc = "request"
    /\ requests' = Append(requests, Request(tasks[k], tasks[k].tool))
    /\ \/ TasksBecome([tasks EXCEPT ![k].pc = "fulfilled", ![k].value = [answer |-> "ok"]])
       \/ TasksBecome([tasks EXCEPT ![k].pc = "rejected", ![k].error = "deadline exceeded"])
    /\ UNCHANGED <<mode, pc, clientVars, toolCall, served, decodeVars, eventVars>>

NextTools ==
    \/ ToolCalled
    \/ ConnectCalled
    \/ \E k \in 1..2 : Connected(k)
    \/ \E k \in 1..2 : FetchHistory(k)
    \/ \E k \in 1..2 : Describe(k)
    \/ \E k \in 1..2 : ServerAnswered(k)

SpecTools == InitTools /\ [][NextTools]_vars

(***************************************************************************)
(* Claims about the activity grouper                                       *)
(***************************************************************************)
\* The loop run event by event builds what groupActivityEvents returns.
GroupsAreLoopResult == mode = "group" => groups = groupActivityEvents(events)

\* A started, completed, failed, timed-out or canceled event whose
\* scheduledEventId is the id of no group's scheduling event.
Dangling(gs, event) ==
    /\ resolveEventType(event) \in ActivityTaskKinds \ {"ActivityTaskScheduled"}
    /\ \A i \in 1..Len(gs) :
          "scheduled" \in DOMAIN gs[i] =>
              EventIdString(gs[i].scheduled) # ScheduledIdOf(event)

\* C10: groupActivityEvents does not raise (every event yields a Map of
\* groups, each holding the scheduling event that the lookups read), and an
\* event that refers back to no stored scheduling event is dropped: no group
\* is created for it and the groups are left as they were.
C10_DanglingDropped ==
    [][(mode = "group" /\ Len(events') = Len(events) + 1)
          => /\ \A i \in 1..Len(groups') : "scheduled" \in DOMAIN groups'[i]
             /\ (Dangling(groups, events'[Len(events')]) => groups' = groups)]_vars

\* C10's case: with a group stored, a completion that refers back to no
\* stored scheduling event has been passed over.
C10_Witness ==
    /\ mode = "group"
    /\ Len(events) = 3
    /\ resolveEventType(events[3]) = "ActivityTaskCompleted"
    /\ Len(groups) = 1
    /\ Dangling(groups, events[3])
    /\ HasAttr(events[3], "scheduledEventId")

\* The terminal slots of a group that hold an event.
TerminalSlots(group) == {"completed", "failed", "timedOut", "canceled"} \cap DOMAIN group

\* C22: in every group groupActivityEvents returns, whatever the events, at
\* most one of the slots completed, failed, timedOut and canceled holds an
\* event.
C22_AsStated ==
    mode = "group" => \A i \in 1..Len(groups) : Cardinality(TerminalSlots(groups[i])) <= 1

\* An activity is scheduled, and a completed and a failed event refer back to
\* it: its group holds both.
C22_Witness ==
    /\ mode = "group"
    /\ Len(events) = 3
    /\ events[1] = ActivityTaskScheduled(1, "1", "Charge")
    /\ events[2] = BackReference(2, 12, 1)
    /\ events[3] = BackReference(3, 13, 1)
    /\ Len(groups) = 1
    /\ TerminalSlots(groups[1]) = {"completed", "failed"}

\* C27: in every group groupActivityEvents returns, each event in a started,
\* completed, failed, timedOut or canceled slot refers back to the scheduling
\* event the group holds, and the group's activityType is the type name that
\* scheduling event declares, also when the activity id is scheduled more
\* than once.
C27_AsStated ==
    mode = "group" =>
        \A i \in 1..Len(groups) :
            /\ \A slot \in {"started", "completed", "failed", "timedOut", "canceled"}
                            \cap DOMAIN groups[i] :
                  ScheduledIdOf(groups[i][slot]) = EventIdString(groups[i].scheduled)
            /\ groups[i].activityType = NameAttr(groups[i].scheduled, "activityType", "Unknown")

\* Activity 1 is scheduled as Charge and completes, and is scheduled again as
\* Notify: its group holds the later scheduling event, the completion of the
\* earlier one and the earlier type.
C27_Witness ==
    /\ mode = "group"
    /\ Len(events) = 3
    /\ events[1] = ActivityTaskScheduled(1, "1", "Charge")
    /\ events[2] = BackReference(2, 12, 1)
    /\ events[3] = ActivityTaskScheduled(3, "1", "Notify")
    /\ Len(groups) = 1
    /\ groups[1].scheduled = events[3]
    /\ groups[1].completed = events[2]
    /\ groups[1].activityType = "Charge"

(***************************************************************************)
(* Claims about the history summarizer                                     *)
(***************************************************************************)
Summarized == mode = "summarize" /\ pc \in {"once", "twice"}

\* The events of the history that are of the named type.
EventsOfType(name) == OfType(events, {name})

\* The history holds one activity-scheduled event, one started event and one
\* completed event, the last two referring back to the first.
OneActivityCompleted ==
    /\ Len(EventsOfType("ActivityTaskScheduled")) = 1
    /\ Len(EventsOfType("ActivityTaskStarted")) = 1
    /\ Len(EventsOfType("ActivityTaskCompleted")) = 1
    /\ \A e \in Range(EventsOfType("ActivityTaskStarted"))
                  \cup Range(EventsOfType("ActivityTaskCompleted")) :
          /\ HasAttr(e, "scheduledEventId")
          /\ e.attrs.scheduledEventId = EventsOfType("ActivityTaskScheduled")[1].eventId

\* The options name no allow-list of event types, or one that admits the
\* scheduled and the completed event.
AdmitsActivityEvents ==
    "eventTypes" \in DOMAIN options =>
        Len(filterByEventTypes(EventsOfType("ActivityTaskScheduled")
                               \o EventsOfType("ActivityTaskCompleted"),
                               options.eventTypes)) = 2

\* Milliseconds from the time of one event to the time of another.
MillisBetween(from, to) ==
    (to.eventTime.seconds - from.eventTime.seconds) * 1000
    + (to.eventTime.nanos - from.eventTime.nanos) \div 1000000

\* What C4 says of the summary of such a history: a timeline of one step,
\* with status "completed", duration_ms the completed event's time less the
\* scheduled event's in milliseconds, and output the decoded completion
\* payload.
OneCompletedStep ==
    LET scheduled == EventsOfType("ActivityTaskScheduled")[1]
        completed == EventsOfType("ActivityTaskCompleted")[1]
    IN /\ Len(history.timeline) = 1
       /\ history.timeline[1].step = 1
       /\ history.timeline[1].status = "completed"
       /\ history.timeline[1].duration_ms = Num(MillisBetween(scheduled, completed))
       /\ history.timeline[1].output = decodePayload(completed.attrs.result[1], Undefined)

\* C4 as stated: a history holding one scheduled, one started and one
\* completed activity event, cross-referenced, is summarized at standard
\* fidelity to one completed step, whatever else the options say.
C4_AsStated ==
    (Summarized /\ options.detailLevel = "standard" /\ OneActivityCompleted)
    => OneCompletedStep

\* C4, amended: a history holding one scheduled, one started and one completed
\* activity event, cross-referenced, is summarized at standard fidelity, with
\* no allow-list of event types or one that admits the scheduled and the
\* completed event, to a timeline of one step, with status "completed",
\* duration_ms the completed event's time less the scheduled event's in
\* milliseconds, and output the decoded completion payload.
C4_OneCompletedStep ==
    (Summarized /\ options.detailLevel = "standard" /\ AdmitsActivityEvents
        /\ OneActivityCompleted)
    => OneCompletedStep

\* C4's case: such a history has been summarized, its completion 20.5 seconds
\* after its scheduling, with the started event between them.
C4_Witness ==
    /\ Summarized
    /\ options = [detailLevel |-> "standard"]
    /\ OneActivityCompleted
    /\ Len(events) = 3
    /\ resolveEventType(events[2]) = "ActivityTaskStarted"
    /\ history.timeline[1].duration_ms = Num(20500)
    /\ history.timeline[1].output = Obj(<<Entry("status", Str("ok"))>>)

HasWarning == "warning" \in DOMAIN history

\* C9 as stated: at every fidelity the summary carries a warning exactly when
\* the history has more than 10,000 events.
C9_AsStated == Summarized => (HasWarning <=> Len(events) > LargeHistoryEvents)

\* C9, amended: at summary and standard fidelity the summary carries a warning
\* exactly when the history has more than 10,000 events, and the warning
\* names the count; at full fidelity it always carries the note of the event
\* counts, whatever the size.
C9_LargeHistoryWarning ==
    Summarized =>
        /\ options.detailLevel # "full" =>
              /\ HasWarning <=> Len(events) > LargeHistoryEvents
              /\ HasWarning =>
                    history.warning = "This workflow has " \o ToString(Len(events))
                                      \o " events. The summary may take a moment to generate."
        /\ options.detailLevel = "full" =>
              /\ HasWarning
              /\ StartsWith(history.warning,
                            "Full history with " \o ToString(Len(events)) \o " events (")

\* C9's case: a history of 10,001 events has been summarized with a warning,
\* at standard fidelity.
C9_Witness ==
    /\ Summarized
    /\ options.detailLevel = "standard"
    /\ Len(events) = LargeHistoryEvents + 1
    /\ HasWarning

\* The decoded values of a history returned at summary or standard fidelity:
\* the workflow's input and result, every signal's input and every step's
\* input and output.
DecodedValues(h) ==
    {h.input, h.result}
    \cup {h.signals_received[i].input : i \in 1..Len(h.signals_received)}
    \cup UNION {{Field(h.timeline[i], "input"), Field(h.timeline[i], "output")} :
                  i \in 1..Len(h.timeline)}

\* The list holds one payload, a JSON one of more bytes than the threshold.
OneLargeJson(payloads) ==
    /\ Len(payloads) = 1
    /\ ReachesJson(payloads[1])
    /\ Len(payloads[1].data) > SUMMARY_TRUNCATE_BYTES

\* The marker decodePayload leaves for the payload of a one-payload list.
MarkerOf(payloads) == TruncatedMarker(TextDecode(payloads[1].data), Len(payloads[1].data))

\* The activity groups the timeline of the current call is built from.
TimelineGroups ==
    groupActivityEvents(IF "eventTypes" \in DOMAIN options
                        THEN filterByEventTypes(events, options.eventTypes)
                        ELSE events)

\* C14: at standard fidelity no decoded value of the returned history is a
\* truncation marker, whatever the size of its payload; at summary fidelity
\* every JSON payload of more than 10,240 bytes is decoded to the truncation
\* marker: the workflow's input and result and a signal's input are the
\* marker, a step's input_summary and output_summary are the summary of it.
C14_TruncationOnlyAtSummary ==
    /\ (Summarized /\ options.detailLevel = "standard")
          => \A v \in DecodedValues(history) : ~IsTruncationMarker(v)
    /\ (Summarized /\ options.detailLevel = "summary")
          => LET startEvent == FindEvent(events, "WorkflowExecutionStarted")
                 completed == FindEvent(events, "WorkflowExecutionCompleted")
                 signaled == OfType(events, {"WorkflowExecutionSignaled"})
                 gs == TimelineGroups
             IN /\ (startEvent # Undefined /\ OneLargeJson(PayloadsAttr(startEvent, "input")))
                      => history.input = MarkerOf(startEvent.attrs.input)
                /\ (completed # Undefined /\ OneLargeJson(PayloadsAttr(completed, "result")))
                      => history.result = MarkerOf(completed.attrs.result)
                /\ \A i \in 1..Len(signaled) :
                      OneLargeJson(PayloadsAttr(signaled[i], "input"))
                      => history.signals_received[i].input = MarkerOf(signaled[i].attrs.input)
                /\ \A i \in 1..Len(gs) :
                      /\ ("scheduled" \in DOMAIN gs[i]
                             /\ OneLargeJson(PayloadsAttr(gs[i].scheduled, "input")))
                           => history.timeline[i].input_summary
                                = summarizeValue(MarkerOf(gs[i].scheduled.attrs.input))
                      /\ ("completed" \in DOMAIN gs[i]
                             /\ OneLargeJson(PayloadsAttr(gs[i].completed, "result")))
                           => history.timeline[i].output_summary
                                = summarizeValue(MarkerOf(gs[i].completed.attrs.result))

\* A summary of a history whose payloads are one byte over the threshold: the
\* workflow's input, its result and the signal's input are markers.
C14_Witness ==
    /\ Summarized
    /\ options.detailLevel = "summary"
    /\ events \in LargePayloadHistories
    /\ Len(events[1].attrs.input[1].data) = SUMMARY_TRUNCATE_BYTES + 1
    /\ IsTruncationMarker(history.input)
    /\ IsTruncationMarker(history.result)
    /\ IsTruncationMarker(history.signals_received[1].input)
    /\ GetKey(history.input, "fullSizeBytes") = Num(SUMMARY_TRUNCATE_BYTES + 1)
    /\ Len(history.timeline) = 1

\* The first event of the named type, when the history holds one.
FirstOfType(name) == EventsOfType(name)[1]
Holds(name) == Len(EventsOfType(name)) > 0

\* C15: at summary and standard fidelity the status goes by the kind of the
\* closing events, not by their place in the log: COMPLETED if a completed
\* event exists, else FAILED if a failed one does, else TIMED_OUT, else
\* CANCELED, else TERMINATED, else RUNNING; close_time is the time of the
\* first event of the deciding kind and null when RUNNING; result is decoded
\* from the completed event alone and failure from the failed event alone.
C15_StatusByKind ==
    (Summarized /\ options.detailLevel # "full") =>
        LET deciding ==
                IF Holds("WorkflowExecutionCompleted") THEN <<"COMPLETED", "WorkflowExecutionCompleted">>
                ELSE IF Holds("WorkflowExecutionFailed") THEN <<"FAILED", "WorkflowExecutionFailed">>
                ELSE IF Holds("WorkflowExecutionTimedOut") THEN <<"TIMED_OUT", "WorkflowExecutionTimedOut">>
                ELSE IF Holds("WorkflowExecutionCanceled") THEN <<"CANCELED", "WorkflowExecutionCanceled">>
                ELSE IF Holds("WorkflowExecutionTerminated") THEN <<"TERMINATED", "WorkflowExecutionTerminated">>
                ELSE <<"RUNNING", "">>
        IN /\ history.status = deciding[1]
           /\ history.close_time
                = IF deciding[1] = "RUNNING" THEN Null
                  ELSE formatTimestamp(TimeOf(FirstOfType(deciding[2])))
           /\ history.result
                = IF deciding[1] = "COMPLETED"
                  THEN decodeSinglePayload(
                           PayloadsAttr(FirstOfType("WorkflowExecutionCompleted"), "result"),
                           TruncateAt(options.detailLevel))
                  ELSE Null
           /\ history.failure
                = IF deciding[1] = "FAILED"
                  THEN extractFailure(RecordAttr(FirstOfType("WorkflowExecutionFailed"), "failure"))
                  ELSE Null

\* A history that failed before it completed: the later event decides, the
\* result is the completed event's and no failure is reported.
C15_Witness ==
    /\ Summarized
    /\ options.detailLevel = "standard"
    /\ Len(events) = 3
    /\ resolveEventType(events[2]) = "WorkflowExecutionFailed"
    /\ resolveEventType(events[3]) = "WorkflowExecutionCompleted"
    /\ history.status = "COMPLETED"
    /\ history.close_time = Str("1970-01-01T00:00:30.750Z")
    /\ history.result = Obj(<<Entry("status", Str("ok"))>>)
    /\ history.failure = Null

\* The slots of a group by falling rank, and the status each gives a step.
SlotsByRank == <<"completed", "failed", "timedOut", "canceled", "started", "scheduled">>
StatusBySlot == <<"completed", "failed", "timed_out", "canceled", "started", "scheduled">>

\* The slots of the group that hold an event.
Populated(group) == {k \in 1..Len(SlotsByRank) : SlotsByRank[k] \in DOMAIN group}

\* C16: the status of every timeline step is that of the highest-ranking
\* populated slot of its activity group, the ranks falling from completed
\* over failed, timed out, canceled and started to scheduled: completed with
\* a completed and a failed, timed-out or canceled event, started with only
\* scheduled and started events, scheduled with only the scheduling event.
C16_StatusBySlotRank ==
    (Summarized /\ options.detailLevel # "full") =>
        LET gs == TimelineGroups
        IN /\ Len(history.timeline) = Len(gs)
           /\ \A i \in 1..Len(gs) :
                LET slots == Populated(gs[i])
                    status == history.timeline[i].status
                IN /\ \E k \in slots :
                        /\ \A j \in slots : k <= j
                        /\ status = StatusBySlot[k]
                   /\ (1 \in slots /\ slots \cap {2, 3, 4} # {}) => status = "completed"
                   /\ slots = {5, 6} => status = "started"
                   /\ slots = {6} => status = "scheduled"

\* An activity that failed and then completed: its step reports completed.
C16_Witness ==
    /\ Summarized
    /\ options.detailLevel = "standard"
    /\ Len(events) = 3
    /\ resolveEventType(events[2]) = "ActivityTaskFailed"
    /\ resolveEventType(events[3]) = "ActivityTaskCompleted"
    /\ Len(TimelineGroups) = 1
    /\ Populated(TimelineGroups[1]) = {1, 2, 6}
    /\ history.timeline[1].status = "completed"

\* The time of the terminal event of the group, or of its started event when
\* it has no terminal event; undefined when it has neither.
TerminalOrStartTime(group) ==
    OrElse(SlotTime(group, "completed"),
           OrElse(SlotTime(group, "failed"),
                  OrElse(SlotTime(group, "timedOut"),
                         OrElse(SlotTime(group, "canceled"), SlotTime(group, "started")))))

\* C17: a step's duration_ms is the milliseconds from the scheduling event's
\* time to the time of the terminal event of the activity, or of its started
\* event when there is no terminal one, and is null only when one of the two
\* times is missing: an activity scheduled and started but not yet ended has
\* a duration, measured to the started event.
C17_AsStated ==
    (Summarized /\ options.detailLevel # "full") =>
        \A i \in 1..Len(TimelineGroups) :
            LET group == TimelineGroups[i]
                from == SlotTime(group, "scheduled")
                to == TerminalOrStartTime(group)
            IN history.timeline[i].duration_ms
                 = IF from # Undefined /\ to # Undefined
                   THEN Num(timestampToMs(to).n - timestampToMs(from).n)
                   ELSE Null

\* An activity scheduled and started and not yet ended, both events timed:
\* its step has status started and no duration.
C17_Witness ==
    /\ Summarized
    /\ options.detailLevel = "standard"
    /\ Len(TimelineGroups) = 1
    /\ Populated(TimelineGroups[1]) = {5, 6}
    /\ SlotTime(TimelineGroups[1], "scheduled") # Undefined
    /\ SlotTime(TimelineGroups[1], "started") # Undefined
    /\ history.timeline[1].status = "started"
    /\ history.timeline[1].duration_ms = Null

\* The fields of a summary other than its timeline.
FieldsBesideTimeline ==
    {"workflow_type", "status", "start_time", "close_time", "input", "result", "failure",
     "signals_received", "timers_fired", "child_workflows", "warning"}

\* The summary of the same events at the same fidelity with no allow-list.
Unfiltered ==
    summarizeHistory("wf-1", "run-1", events, [detailLevel |-> options.detailLevel])

\* C18: at summary and standard fidelity an allow-list changes nothing but
\* the timeline: the workflow type, status, start and close time, input,
\* result, failure, signals, timers, child workflows and warning are those
\* of the summary made with no allow-list.
C18_AllowListOnlyTimeline ==
    (Summarized /\ options.detailLevel # "full" /\ "eventTypes" \in DOMAIN options) =>
        \A f \in FieldsBesideTimeline : Field(history, f) = Field(Unfiltered, f)

\* An allow-list that admits neither the signal nor the timers of a history
\* that has them: the timeline is cut, the signal and the timer are reported.
C18_Witness ==
    /\ Summarized
    /\ options.detailLevel = "standard"
    /\ "eventTypes" \in DOMAIN options
    /\ Len(filterByEventTypes(events, options.eventTypes)) < Len(events)
    /\ Len(EventsOfType("WorkflowExecutionSignaled")) = 1
    /\ Len(EventsOfType("TimerStarted")) = 1
    /\ filterByEventTypes(EventsOfType("WorkflowExecutionSignaled"), options.eventTypes) = <<>>
    /\ filterByEventTypes(EventsOfType("TimerStarted"), options.eventTypes) = <<>>
    /\ Len(history.signals_received) = 1
    /\ Len(history.timers_fired) = 1
    /\ history.timers_fired[1].duration = "2m"
    /\ history.status = "FAILED"

\* C19: timers_fired has one entry for each timer-fired event, in log order,
\* and none for a timer that was started and never fired; an entry's
\* duration is that of a timer-started event with the same timer id, the one
\* that stands last in the log when several have the id.
C19_TimersFired ==
    (Summarized /\ options.detailLevel # "full") =>
        LET fired == EventsOfType("TimerFired")
            started == EventsOfType("TimerStarted")
        IN /\ Len(history.timers_fired) = Len(fired)
           /\ \A i \in 1..Len(fired) :
                LET entry == history.timers_fired[i]
                IN /\ entry.timer_id = fired[i].attrs.timerId
                   /\ entry.fired_time = formatTimestamp(TimeOf(fired[i])).v
                   /\ \E k \in 1..Len(started) :
                        /\ started[k].attrs.timerId = entry.timer_id
                        /\ \A j \in (k + 1)..Len(started) :
                              started[j].attrs.timerId # entry.timer_id
                        /\ entry.duration = formatDuration(started[k].attrs.startToFireTimeout)
           /\ \A k \in 1..Len(started) :
                (\A i \in 1..Len(fired) : fired[i].attrs.timerId # started[k].attrs.timerId)
                => \A i \in 1..Len(history.timers_fired) :
                      history.timers_fired[i].timer_id # started[k].attrs.timerId

\* Timer t1 is started for 5 seconds and fires, is started again for 90
\* seconds and fires again: two entries, both with the later start's duration.
C19_Witness ==
    /\ Summarized
    /\ options.detailLevel = "summary"
    /\ Len(events) = 4
    /\ events[1] = TimerStarted(1, "t1", 5)
    /\ events[3] = TimerStarted(3, "t1", 90)
    /\ Len(history.timers_fired) = 2
    /\ history.timers_fired[1] = [timer_id |-> "t1", duration |-> "2m",
                                  fired_time |-> "1970-01-01T00:00:20.500Z"]
    /\ history.timers_fired[2].duration = "2m"

\* The child workflow id an event of a child workflow carries.
ChildIdOf(event) ==
    IF resolveEventType(event) = "StartChildWorkflowExecutionInitiated"
    THEN event.attrs.workflowId
    ELSE event.attrs.workflowExecution.workflowId

\* The places in the log of the events of the child, and of its initiations.
ChildEventsOf(wfId) ==
    {i \in 1..Len(events) :
        resolveEventType(events[i]) \in ChildEventKinds /\ ChildIdOf(events[i]) = wfId}
InitiationsOf(wfId) ==
    {i \in ChildEventsOf(wfId) :
        resolveEventType(events[i]) = "StartChildWorkflowExecutionInitiated"}
Least(S) == CHOOSE i \in S : \A j \in S : i <= j
Greatest(S) == CHOOSE i \in S : \A j \in S : j <= i

\* The child ids of the log that have an initiation.
Initiated ==
    {ChildIdOf(events[i]) :
        i \in {j \in 1..Len(events) :
                 resolveEventType(events[j]) = "StartChildWorkflowExecutionInitiated"}}

\* C20: child_workflows has one entry for each child workflow id that has an
\* initiation event, in the order of the ids' first initiations; an entry's
\* status is the one set by the last initiated, started, completed or failed
\* event of the id in the log, of those at or after its first initiation;
\* so an event of an id not initiated before it makes no entry and changes
\* none.
C20_ChildWorkflows ==
    (Summarized /\ options.detailLevel # "full") =>
        LET children == history.child_workflows
        IN /\ {children[i].workflow_id : i \in 1..Len(children)} = Initiated
           /\ Len(children) = Cardinality(Initiated)
           /\ \A i \in 1..Len(children) : \A j \in (i + 1)..Len(children) :
                Least(InitiationsOf(children[i].workflow_id))
                  < Least(InitiationsOf(children[j].workflow_id))
           /\ \A i \in 1..Len(children) :
                LET wfId == children[i].workflow_id
                    counted == {k \in ChildEventsOf(wfId) : k >= Least(InitiationsOf(wfId))}
                    last == events[Greatest(counted)]
                IN children[i].status
                     = IF resolveEventType(last) = "StartChildWorkflowExecutionInitiated"
                       THEN "initiated"
                       ELSE ChildStatusOf(resolveEventType(last))

\* Child c1 completes before it is initiated and starts after: one entry,
\* with the status started; child c2, started and never initiated, has none.
C20_Witness ==
    /\ Summarized
    /\ options.detailLevel = "standard"
    /\ events \in ChildHistories
    /\ resolveEventType(events[1]) = "ChildWorkflowExecutionCompleted"
    /\ resolveEventType(events[2]) = "StartChildWorkflowExecutionInitiated"
    /\ ChildIdOf(events[2]) = "c1"
    /\ resolveEventType(events[3]) = "ChildWorkflowExecutionStarted"
    /\ ChildIdOf(events[3]) = "c1"
    /\ history.child_workflows
         = <<[workflow_id |-> "c1", workflow_type |-> "Ship", status |-> "started"]>>

\* The events the timeline of the current call is built from.
TimelineEvents ==
    IF "eventTypes" \in DOMAIN options THEN filterByEventTypes(events, options.eventTypes)
    ELSE events

\* The places in the timeline's events of the scheduling events of an
\* activity id, and the activity ids that have one.
SchedulingsOf(activityId) ==
    {i \in 1..Len(TimelineEvents) :
        /\ resolveEventType(TimelineEvents[i]) = "ActivityTaskScheduled"
        /\ StringAttr(TimelineEvents[i], "activityId", "") = activityId}
ScheduledActivityIds ==
    {StringAttr(TimelineEvents[i], "activityId", "") :
        i \in {j \in 1..Len(TimelineEvents) :
                 resolveEventType(TimelineEvents[j]) = "ActivityTaskScheduled"}} \ {""}

\* C21: at summary and standard fidelity the timeline has one step for each
\* activity id that has a scheduling event among the filtered events; the
\* steps stand in the order of the ids' first scheduling events, also when
\* an id is scheduled again later, and are numbered 1, 2, ..., n.
C21_OneStepPerActivity ==
    (Summarized /\ options.detailLevel # "full") =>
        LET gs == TimelineGroups
        IN /\ Len(history.timeline) = Cardinality(ScheduledActivityIds)
           /\ Len(gs) = Len(history.timeline)
           /\ {gs[i].activityId : i \in 1..Len(gs)} = ScheduledActivityIds
           /\ \A i \in 1..Len(gs) : \A j \in (i + 1)..Len(gs) :
                Least(SchedulingsOf(gs[i].activityId)) < Least(SchedulingsOf(gs[j].activityId))
           /\ \A i \in 1..Len(gs) :
                /\ history.timeline[i].step = i
                /\ history.timeline[i].activity = gs[i].activityType

\* Activity 1 is scheduled, then activity 2, then activity 1 again: two
\* steps, activity 1 first.
C21_Witness ==
    /\ Summarized
    /\ options.detailLevel = "standard"
    /\ Len(events) = 3
    /\ SchedulingsOf("1") = {1, 3}
    /\ SchedulingsOf("2") = {2}
    /\ Len(history.timeline) = 2
    /\ history.timeline[1].activity = "Charge"
    /\ history.timeline[1].step = 1
    /\ history.timeline[2].activity = "Notify"
    /\ history.timeline[2].step = 2

\* The timer-started events of the id that stand before the event in the log.
StartsBefore(event) ==
    SelectSeq(EventsOfType("TimerStarted"),
              LAMBDA e : e.attrs.timerId = event.attrs.timerId /\ e.eventId < event.eventId)

\* C30 as stated: the duration reported for a timer-fired event is that of a
\* timer-started event of the same id that precedes it in the log, the
\* nearest one; a later start of the id does not change the entry.
C30_AsStated ==
    (Summarized /\ options.detailLevel # "full") =>
        LET fired == EventsOfType("TimerFired")
        IN \A i \in 1..Len(fired) :
              StartsBefore(fired[i]) # <<>>
              => history.timers_fired[i].duration
                    = formatDuration(StartsBefore(fired[i])[Len(StartsBefore(fired[i]))]
                                        .attrs.startToFireTimeout)

\* Timer t1 is started for 90 seconds and fires, then is started again for 5
\* seconds: the entry for the first fire reports the second start's duration.
C30_Witness ==
    /\ Summarized
    /\ options.detailLevel = "standard"
    /\ Len(events) = 4
    /\ events[1] = TimerStarted(1, "t1", 90)
    /\ events[2] = TimerFired(2, "t1")
    /\ events[3] = TimerStarted(3, "t1", 5)
    /\ history.timers_fired[1].timer_id = "t1"
    /\ history.timers_fired[1].duration = formatDuration([seconds |-> 5])
    /\ formatDuration([seconds |-> 5]) # formatDuration([seconds |-> 90])

(***************************************************************************)
(* Claims about the tools                                                  *)
(***************************************************************************)
Serving(tool) == mode = "tools" /\ toolCall # Idle /\ toolCall.tool = tool

\* The task's fetch has answered with a history of no events.
FetchedNothing(task) == task.fetched # Idle /\ Len(task.fetched.events) = 0

\* C11 as stated: a call of get_workflow_history whose fetch answers with no
\* events produces no WorkflowHistory and is rejected with the error reported
\* for a workflow that does not exist, 'No workflow found with ID ...'.
C11_AsStated ==
    (Serving("get_workflow_history") /\ FetchedNothing(tasks[1]))
    => /\ tasks[1].pc = "rejected"
       /\ outcome = [error |-> NoWorkflowFound(toolCall.input.workflow_id)]

\* C11, as getWorkflowHistory has it: no WorkflowHistory is produced, but the
\* error thrown inside the try block passes through the catch block, which
\* does not know it: the call is rejected with the generic failure that
\* wraps it, or with the permission error when the workflow id holds the
\* word "permission".
C11_ZeroEventsRejected ==
    (Serving("get_workflow_history") /\ FetchedNothing(tasks[1]))
    => /\ tasks[1].pc = "rejected"
       /\ outcome \in
              {[error |-> "Failed to get workflow history: "
                          \o NoWorkflowFound(toolCall.input.workflow_id)],
               [error |-> PermissionDenied]}

\* C11's case: the fetch for 'order-1' has answered with no events.
C11_Witness ==
    /\ Serving("get_workflow_history")
    /\ FetchedNothing(tasks[1])
    /\ outcome = [error |-> "Failed to get workflow history: " \o NoWorkflowFound("order-1")]

\* The namespace a tool call asks for: the one its input names, the
\* configured one when it names none.
RequestedNamespace ==
    IF "namespace" \in DOMAIN toolCall.input THEN toolCall.input.namespace
    ELSE activeConfig.namespace

\* C12 as stated: every request made for a tool call goes through the client
\* of the namespace the call supplies, and through the configured default
\* namespace only when it supplies none.
C12_AsStated ==
    (mode = "tools" /\ toolCall # Idle)
    => \A k \in 1..Len(requests) : requests[k].namespace = RequestedNamespace

\* C12, as the tools have it: list_workflows, get_workflow_stack_trace,
\* describe_task_queue and search_workflow_data make their requests through
\* the client of the namespace asked for; get_workflow_history and
\* compare_executions make theirs through the client of the configured
\* namespace, whatever namespace the call supplies.
C12_NamespaceUsed ==
    (mode = "tools" /\ toolCall # Idle)
    => \A k \in 1..Len(requests) :
          requests[k].namespace =
              IF toolCall.tool \in RequestTools THEN RequestedNamespace
              ELSE activeConfig.namespace

\* C12's case: get_workflow_history, asked for the namespace 'staging', has
\* fetched the history through the client of 'default'.
C12_Witness ==
    /\ Serving("get_workflow_history")
    /\ RequestedNamespace = "staging"
    /\ Len(requests) > 0
    /\ requests[1] = [namespace |-> "default", connection |-> 1, op |-> "fetchHistory",
                      workflow_id |-> "order-1"]

\* What C13 says of a state: diffExecutions has run only when both
\* retrievals have been fulfilled, on their two histories; once a retrieval
\* is rejected it has not run, and the comparison has returned that error,
\* not a report.
DiffAfterBoth ==
    Serving("compare_executions") =>
        /\ Len(tasks) = 2
        /\ report # Idle =>
              /\ Fulfilled(tasks)
              /\ historyA = tasks[1].value /\ historyB = tasks[2].value
              /\ report = diffExecutions(historyA, historyB)
              /\ outcome = [value |-> CompareOutput(historyA, historyB, report)]
        /\ Fulfilled(tasks) => report # Idle
        /\ (\E k \in 1..2 : tasks[k].pc = "rejected") =>
              /\ report = Idle
              /\ outcome # Idle
              /\ DOMAIN outcome = {"error"}
        /\ (~Fulfilled(tasks) /\ \A k \in 1..2 : tasks[k].pc # "rejected") => outcome = Idle

\* C13: compareExecutions starts both retrievals at once and neither waits for
\* the other (a step of one leaves the other where it stands, and is taken
\* wherever the other stands); diffExecutions runs only after both have been
\* fulfilled; if either is rejected it never runs and the comparison returns
\* the error, not a partial report.
C13_DiffAfterBoth ==
    /\ []DiffAfterBoth
    /\ [][(Serving("compare_executions") /\ served' = served)
             => /\ \E k \in 1..2 : tasks'[k] # tasks[k] /\ tasks'[3 - k] = tasks[3 - k]
                /\ (outcome # Idle => outcome' = outcome /\ report' = report)]_vars

\* C13's case: the second retrieval was fetched and described before the
\* first was fetched, and the two histories have been compared.
C13_Witness ==
    /\ Serving("compare_executions")
    /\ report # Idle
    /\ Len(requests) = 4
    /\ requests[1].workflow_id = "order-2" /\ requests[2].workflow_id = "order-2"
    /\ requests[2].op = "describe"
    /\ requests[3].workflow_id = "order-1"
    /\ Len(report.divergences) > 0

\* The configuration has no API key.
NoApiKey == mode = "tools" /\ "apiKey" \notin DOMAIN activeConfig

\* The tasks that have got their client got one client per namespace.
OneClientPerNamespace ==
    \A j \in 1..Len(tasks) : \A k \in 1..Len(tasks) :
        (tasks[j].client # Idle /\ tasks[k].client # Idle
           /\ tasks[j].namespace = tasks[k].namespace)
        => tasks[j].client = tasks[k].client

\* C25 as stated: without API-key auth, in every interleaving of the calls of
\* getTemporalClient, a connection is opened only when none was opened since
\* the last closeConnection (connectionInstance is null), and two calls for
\* one namespace return the same client.
C25_AsStated ==
    /\ [](NoApiKey => OneClientPerNamespace)
    /\ [][(NoApiKey /\ Len(connections') > Len(connections))
             => connectionInstance = 0]_vars

\* compare_executions was called before any connection existed: its two
\* retrievals each opened a connection and hold different clients for the
\* one namespace; the first connection is referred to by neither
\* connectionInstance nor the cache.
C25_Witness ==
    /\ NoApiKey
    /\ Serving("compare_executions")
    /\ served = 1
    /\ Len(connections) = 2
    /\ connections[1].open /\ connections[2].open
    /\ tasks[1].namespace = tasks[2].namespace
    /\ tasks[1].client # Idle /\ tasks[2].client # Idle
    /\ tasks[1].client # tasks[2].client
    /\ connectionInstance # tasks[1].client.connection
         \/ connectionInstance # tasks[2].client.connection

\* closeConnection has completed and nothing has been opened since:
\* connectToServer waits for its connection.
AfterCloseConnection == Serving("temporal_connection") /\ tasks[1].pc = "connect"

\* The connections still open.
OpenConnections == {c \in 1..Len(connections) : connections[c].open}

\* The connections a cached client or connectionInstance refers to.
ReferredConnections ==
    {clientCache[ns].connection : ns \in DOMAIN clientCache}
    \cup (IF connectionInstance # 0 THEN {connectionInstance} ELSE {})

\* C28 as stated: after closeConnection completes the client cache is empty
\* and every connection opened since start-up is closed, those opened for a
\* namespace under API-key auth among them; no open connection is left
\* that nothing refers to.
C28_AsStated ==
    /\ AfterCloseConnection => (clientCache = <<>> /\ OpenConnections = {})
    /\ mode = "tools" => OpenConnections \subseteq ReferredConnections

\* Under API-key auth a connection was opened for the namespace staging
\* beside the shared one; closeConnection has completed, the cache is empty,
\* the shared connection is closed and the one for staging is still open.
C28_Witness ==
    /\ AfterCloseConnection
    /\ clientCache = <<>>
    /\ connectionInstance = 0
    /\ Len(connections) = 2
    /\ ~connections[1].open
    /\ connections[2] = [open |-> TRUE, header |-> "staging"]

====
